---------------------------- MODULE Spec2Model ----------------------------
(***************************************************************************)
(* A model of VeloStudy (src/app.py): the adaptive document pipeline       *)
(* (complexity analysis, depth selection, chunking, mindmap generation)    *)
(* and the handlers of main() that drive it.                               *)
(*                                                                         *)
(* A Python str is a sequence of one-character strings.  The character     *)
(* BulkChar stands for BulkLen consecutive copies of a lower-case letter,  *)
(* so that a text longer than the 25000 characters of src/app.py:198 is a  *)
(* short sequence; PyLen gives the length len() returns for it.            *)
(***************************************************************************)
EXTENDS Integers, Sequences, FiniteSets, TLC

VARIABLES
    text_arg,         \* chunk_text_intelligently: argument text
    max_chunk_size,   \* chunk_text_intelligently: argument max_chunk_size
    chunks_ret,       \* chunk_text_intelligently: returned list, or NotCalled
    complexity_score, \* determine_mindmap_depth: argument, in units of 1/ScoreDen
    depth_ret,        \* determine_mindmap_depth: returned dict, or NotCalled
    override_ret,     \* the mindmap_config lines 1018-1032 of main build, or NotCalled
    extracted_text,   \* st.session_state.extracted_text
    force_detail_level, \* the "Detail Level" selectbox of the mindmap tab
    ss_file_stats,    \* st.session_state.file_stats, or Absent
    ss_mindmap_config, \* st.session_state.mindmap_config, or Absent
    ss_markdown_content, \* st.session_state.markdown_content, or Absent
    pc,               \* where the script is: "ready" between reruns, else
                      \* the model call create_mindmap_markdown is about to make
    mm,               \* locals of the running create_mindmap_markdown
    calls,            \* the model calls of the latest create_mindmap_markdown,
                      \* in the order issued, each with its outcome
    ret,              \* what the latest create_mindmap_markdown returned
    analysis_arg,     \* analyze_text_complexity: argument text
    analysis_ret,     \* analyze_text_complexity: returned dict, or NotCalled
    invocation,       \* create_flashcards / create_quiz / create_summary:
                      \* the function called and its arguments, or NotCalled
    model_calls,      \* the prompts that invocation handed to generate_content
    study_ret,        \* what that invocation returned, or NotCalled
    st_errors,        \* how many times that invocation called st.error
    uploaded_file,    \* what st.file_uploader returns: NoFile, or a file
    current_file,     \* st.session_state.current_file, or Absent
    rendered,         \* how far the latest run of main got: "none" (no tab),
                      \* "mindmap_tab" (returned at line 1043) or "all"
    ss_summaries,     \* the st.session_state entries under a summary_key
    ss_current_summary_key, \* st.session_state.current_summary_key, or Absent
    ss_flashcards,    \* st.session_state.flashcards, or Absent
    ss_quiz_questions, \* st.session_state.quiz_questions, or Absent
    flashcard_current_card, \* st.session_state.flashcard_current_card, or Absent
    flashcard_show_answer,  \* st.session_state.flashcard_show_answer, or Absent
    flashcard_stats,  \* st.session_state.flashcard_stats, or Absent
    quiz_current_question,  \* st.session_state.quiz_current_question, or Absent
    quiz_user_answers, \* st.session_state.quiz_user_answers, or Absent
    quiz_is_submitted, \* st.session_state.quiz_is_submitted, or Absent
    quiz_show_results, \* st.session_state.quiz_show_results, or Absent
    derived_from,     \* history: for each kind of artifact, the name of the
                      \* file whose text the stored one was made from
    producing_config, \* history: the mindmap_config stored by the run that
                      \* stored the present markdown_content, or Absent
    displayed_card    \* history: the index of line 680 in the latest run, or
                      \* Absent when that run displayed no card

chunkVars == <<text_arg, max_chunk_size, chunks_ret>>
depthVars == <<complexity_score, depth_ret, override_ret>>
sessionVars == <<extracted_text, force_detail_level, ss_file_stats,
                 ss_mindmap_config, ss_markdown_content>>
mindmapVars == <<pc, mm, calls, ret>>
analyzeVars == <<analysis_arg, analysis_ret>>
studyVars == <<invocation, model_calls, study_ret, st_errors>>
uploadVars == <<uploaded_file, current_file, rendered>>
storeVars == <<ss_summaries, ss_current_summary_key, ss_flashcards,
               ss_quiz_questions>>
flashcardVars == <<flashcard_current_card, flashcard_show_answer,
                   flashcard_stats>>
quizVars == <<quiz_current_question, quiz_user_answers, quiz_is_submitted,
              quiz_show_results>>
historyVars == <<derived_from, producing_config, displayed_card>>
appVars == <<uploadVars, storeVars, flashcardVars, quizVars, historyVars>>
vars == <<chunkVars, depthVars, sessionVars, mindmapVars, analyzeVars, studyVars,
          appVars>>

\* A function that has not returned yet holds NotCalled, one that has
\* returned v holds Returned(v).
NotCalled == <<>>
Returned(v) == <<v>>
\* A key that is not in st.session_state holds Absent, one that is holds
\* Stored(v).
Absent == <<>>
Stored(v) == <<v>>
\* the variables of the parts a specification leaves out
Idle == "Idle"
\* Python's None
None == "None"

-----------------------------------------------------------------------------
(* Bounds of the model *)

\* longest text handed to chunk_text_intelligently
MaxTextLen == 8
\* largest max_chunk_size handed to chunk_text_intelligently
MaxSize == 4
\* number of characters one BulkChar stands for
BulkLen == 20000
\* largest whole score handed to determine_mindmap_depth (and smallest, negated)
MaxScore == 32
\* most lines in a flashcard block of the model's answer
MaxCardLines == 3
\* most blocks in an answer to create_flashcards
MaxCards == 4
\* most option lines in a quiz block of the model's answer
MaxOptions == 5
\* most blocks in an answer to create_quiz
MaxQuestions == 3
\* longest text handed to analyze_text_complexity on its own
MaxAnalyzeLen == 5
\* longest extracted document
MaxDocLen == 7

-----------------------------------------------------------------------------
(* Python strings *)

BulkChar == "<w>"

\* str.isspace() of one character
IsSpace(c) == c \in {" ", "\n", "\t", "\r"}

RECURSIVE PyLen(_)
\* len(s)
PyLen(s) ==
    IF s = <<>> THEN 0
    ELSE (IF Head(s) = BulkChar THEN BulkLen ELSE 1) + PyLen(Tail(s))

SetMin(S) == CHOOSE x \in S : \A y \in S : x <= y
SetMax(S) == CHOOSE x \in S : \A y \in S : x >= y

\* s.strip()
Strip(s) ==
    LET keep == {k \in 1..Len(s) : ~IsSpace(s[k])}
    IN  IF keep = {} THEN <<>> ELSE SubSeq(s, SetMin(keep), SetMax(keep))

\* the positions q at which a match of \n\s*\n that starts at p can end
ParaMatchEnds(s, p) ==
    {q \in (p + 1)..Len(s) :
        /\ s[q] = "\n"
        /\ \A k \in (p + 1)..(q - 1) : IsSpace(s[k])}

RECURSIVE ParaSplitFrom(_, _)
ParaSplitFrom(s, from) ==
    LET starts == {p \in from..Len(s) : s[p] = "\n" /\ ParaMatchEnds(s, p) # {}}
    IN  IF starts = {} THEN <<SubSeq(s, from, Len(s))>>
        ELSE LET p == SetMin(starts)
                 q == SetMax(ParaMatchEnds(s, p))
             IN  <<SubSeq(s, from, p - 1)>> \o ParaSplitFrom(s, q + 1)

\* re.split(r'\n\s*\n', s): leftmost matches, \s* greedy
ParaSplit(s) == ParaSplitFrom(s, 1)

ParaSep == <<"\n", "\n">>

-----------------------------------------------------------------------------
(* chunk_text_intelligently *)

\* line 96 with the paragraph's length left out of the test
FitsCurrentIgnoringParagraph(current_chunk, paragraph, size) ==
    PyLen(current_chunk) <= size

\* line 96 with the trailing separator of current_chunk left out of the test
FitsCurrentWithoutSeparator(current_chunk, paragraph, size) ==
    PyLen(Strip(current_chunk)) + PyLen(paragraph) <= size

\* the test of line 96
FitsCurrent(current_chunk, paragraph, size) ==
    PyLen(current_chunk) + PyLen(paragraph) <= size

\* line 97 without the separator
JoinParagraphNoSeparator(current_chunk, paragraph) ==
    current_chunk \o paragraph

\* line 97: current_chunk += paragraph + "\n\n"
JoinParagraph(current_chunk, paragraph) ==
    current_chunk \o paragraph \o ParaSep

\* lines 99-100 and 103-104: if current_chunk: chunks.append(current_chunk.strip())
FlushChunk(chunks, current_chunk) ==
    IF current_chunk # <<>> THEN Append(chunks, Strip(current_chunk)) ELSE chunks

\* line 101: current_chunk = paragraph + "\n\n"
StartChunk(paragraph) == paragraph \o ParaSep

RECURSIVE ChunkLoop(_, _, _, _)
\* the loop of lines 95-101 and the final flush of lines 103-104
ChunkLoop(paragraphs, size, chunks, current_chunk) ==
    IF paragraphs = <<>>
    THEN FlushChunk(chunks, current_chunk)
    ELSE LET paragraph == Head(paragraphs)
         IN  IF FitsCurrent(current_chunk, paragraph, size)
             THEN ChunkLoop(Tail(paragraphs), size, chunks,
                            JoinParagraph(current_chunk, paragraph))
             ELSE ChunkLoop(Tail(paragraphs), size,
                            FlushChunk(chunks, current_chunk),
                            StartChunk(paragraph))

\* line 87 with < for <=
IsShortStrict(text, size) == PyLen(text) < size

\* the test of line 87
IsShort(text, size) == PyLen(text) <= size

chunk_text_intelligently(text, size) ==
    IF IsShort(text, size) THEN <<text>>
    ELSE ChunkLoop(ParaSplit(text), size, <<>>, <<>>)

-----------------------------------------------------------------------------
(* determine_mindmap_depth *)

\* A score is held as an integer number of 1/ScoreDen: lines 58-63 give
\* 12/3000 per word, 90/3000 per sentence, 120/3000 per paragraph and
\* 100/3000 per heading.
ScoreDen == 3000

Config(detail_level, max_levels, expand_level) ==
    [max_levels |-> max_levels, detail_level |-> detail_level,
     expand_level |-> expand_level]

\* lines 76-83 with <= for < in the first test
determine_mindmap_depth_inclusive(score) ==
    IF score <= 5 * ScoreDen THEN Config("basic", 3, 2)
    ELSE IF score < 15 * ScoreDen THEN Config("moderate", 4, 2)
    ELSE IF score < 30 * ScoreDen THEN Config("detailed", 5, 1)
    ELSE Config("comprehensive", 6, 1)

determine_mindmap_depth(score) ==
    IF score < 5 * ScoreDen THEN Config("basic", 3, 2)
    ELSE IF score < 15 * ScoreDen THEN Config("moderate", 4, 2)
    ELSE IF score < 30 * ScoreDen THEN Config("detailed", 5, 1)
    ELSE Config("comprehensive", 6, 1)

-----------------------------------------------------------------------------
(* analyze_text_complexity *)

IsTerminal(c) == c \in {".", "!", "?"}

IsUpper(c) ==
    c \in {"A", "B", "C", "D", "E", "F", "G", "H", "I", "J", "K", "L", "M",
           "N", "O", "P", "Q", "R", "S", "T", "U", "V", "W", "X", "Y", "Z"}

\* len(s.split()): the maximal runs of non-whitespace
WordCount(s) ==
    Cardinality({k \in 1..Len(s) :
        ~IsSpace(s[k]) /\ (k = 1 \/ IsSpace(s[k - 1]))})

\* len(re.findall(r'[.!?]+', s)): the maximal runs of terminal punctuation
SentenceCount(s) ==
    Cardinality({k \in 1..Len(s) :
        IsTerminal(s[k]) /\ (k = 1 \/ ~IsTerminal(s[k - 1]))})

\* line 54 with no paragraph counted in a blank text
ParagraphCountBlankIsZero(s) ==
    IF Strip(s) = <<>> THEN 0 ELSE Len(ParaSplit(Strip(s)))

\* len(re.split(r'\n\s*\n', s.strip()))
ParagraphCount(s) == Len(ParaSplit(Strip(s)))

\* the positions at which a match of ^[A-Z][^.!?]*$ (re.MULTILINE) that
\* starts at p can end: [^.!?] also matches a line break
HeadingMatchEnds(s, p) ==
    {e \in p..Len(s) :
        /\ \A k \in (p + 1)..e : ~IsTerminal(s[k])
        /\ (e = Len(s) \/ s[e + 1] = "\n")}

RECURSIVE HeadingCountFrom(_, _)
HeadingCountFrom(s, from) ==
    LET starts == {p \in from..Len(s) :
                      /\ p = 1 \/ s[p - 1] = "\n"
                      /\ IsUpper(s[p])
                      /\ HeadingMatchEnds(s, p) # {}}
    IN  IF starts = {} THEN 0
        ELSE 1 + HeadingCountFrom(s, SetMax(HeadingMatchEnds(s, SetMin(starts))) + 1)

\* len(re.findall(r'^[A-Z][^.!?]*$', s, re.MULTILINE))
HeadingCount(s) == HeadingCountFrom(s, 1)

\* lines 58-63 with the weights of sentences and paragraphs exchanged
ComplexityScoreSwapped(words, sentences, paragraphs, headings) ==
    12 * words + 120 * sentences + 90 * paragraphs + 100 * headings

\* lines 58-63, in units of 1/ScoreDen
ComplexityScore(words, sentences, paragraphs, headings) ==
    12 * words + 90 * sentences + 120 * paragraphs + 100 * headings

analyze_text_complexity(text) ==
    [word_count |-> WordCount(text),
     char_count |-> PyLen(text),
     sentence_count |-> SentenceCount(text),
     paragraph_count |-> ParagraphCount(text),
     potential_headings |-> HeadingCount(text),
     complexity_score |-> ComplexityScore(WordCount(text), SentenceCount(text),
                                          ParagraphCount(text), HeadingCount(text))]

-----------------------------------------------------------------------------
(* create_adaptive_prompt, create_mindmap_markdown and the Generate Mindmap *)
(* handler of main                                                         *)

\* max_chunk_size of line 198
MindmapChunkSize == 25000

Auto == "Auto (Recommended)"

\* the options of the selectbox, lines 998-1003
DetailLevelOptions == {Auto, "Basic", "Moderate", "Detailed", "Comprehensive"}

\* level_map, lines 1019-1024
LevelMap(option) ==
    CASE option = "Basic" -> "basic"
      [] option = "Moderate" -> "moderate"
      [] option = "Detailed" -> "detailed"
      [] option = "Comprehensive" -> "comprehensive"

\* lines 1025-1029 with expand_level 2 for 'basic' only
OverrideConfigExpandBasicOnly(option) ==
    LET level == LevelMap(option)
    IN  Config(level,
               CASE level = "basic" -> 3
                 [] level = "moderate" -> 4
                 [] level = "detailed" -> 5
                 [] level = "comprehensive" -> 6,
               IF level \in {"basic"} THEN 2 ELSE 1)

\* the forced configuration, lines 1025-1029
OverrideConfig(option) ==
    LET level == LevelMap(option)
    IN  Config(level,
               CASE level = "basic" -> 3
                 [] level = "moderate" -> 4
                 [] level = "detailed" -> 5
                 [] level = "comprehensive" -> 6,
               IF level \in {"basic", "moderate"} THEN 2 ELSE 1)

\* lines 1018-1032: the configuration main stores in the session
SessionConfig(option, file_stats) ==
    IF option # Auto THEN OverrideConfig(option)
    ELSE determine_mindmap_depth(file_stats.complexity_score)

\* create_adaptive_prompt(text_analysis, mindmap_config).format(text=text):
\* the prompt is the template with these values put in
MindmapPrompt(text_analysis, mindmap_config, text) ==
    [kind |-> "mindmap",
     detail_level |-> mindmap_config.detail_level,
     max_levels |-> mindmap_config.max_levels,
     word_count |-> text_analysis.word_count,
     paragraph_count |-> text_analysis.paragraph_count,
     text |-> text]

\* consolidation_prompt, lines 218-227
ConsolidationPrompt(mindmap_config, combined_text) ==
    [kind |-> "consolidation",
     detail_level |-> mindmap_config.detail_level,
     max_levels |-> mindmap_config.max_levels,
     word_count |-> 0,
     paragraph_count |-> 0,
     text |-> combined_text]

RECURSIVE Join(_)
\* "\n\n".join(parts)
Join(parts) ==
    IF parts = <<>> THEN <<>>
    ELSE IF Len(parts) = 1 THEN Head(parts)
    ELSE Head(parts) \o ParaSep \o Join(Tail(parts))

\* What model.generate_content does: it raises, or it returns a response
\* whose .text is some string.
Raises == [raised |-> TRUE, text |-> <<>>]
Responds(text) == [raised |-> FALSE, text |-> text]

\* the local mindmap_config of create_mindmap_markdown, line 186
LocalConfig(text_analysis) ==
    determine_mindmap_depth(text_analysis.complexity_score)

\* lines 211-212: the per-chunk results after one more response
Collect(all_mindmaps, response_text) ==
    IF response_text # <<>> /\ Strip(response_text) # <<>>
    THEN Append(all_mindmaps, Strip(response_text))
    ELSE all_mindmaps

\* line 230 without the strip
ConsolidationResultRaw(response_text) ==
    IF response_text # <<>> THEN response_text ELSE None

\* line 230
ConsolidationResult(response_text) ==
    IF response_text # <<>> THEN Strip(response_text) ELSE None

\* lines 237-241 with only the emptiness test of line 230
SingleResultNoBlankTest(response_text) ==
    IF response_text # <<>> THEN Strip(response_text) ELSE None

\* lines 237-241
SingleResult(response_text) ==
    IF response_text = <<>> \/ Strip(response_text) = <<>> THEN None
    ELSE Strip(response_text)

\* Python's truth value of what create_mindmap_markdown returned
IsTruthy(value) == value # None /\ value # <<>>

-----------------------------------------------------------------------------
(* create_flashcards, create_summary and create_quiz *)

\* s.startswith(prefix)
StartsWith(s, prefix) ==
    Len(s) >= Len(prefix) /\ SubSeq(s, 1, Len(prefix)) = prefix

\* s[n:]
From(s, n) == SubSeq(s, n + 1, Len(s))

RECURSIVE PySplitFrom(_, _, _, _)
\* the pieces of s.split(sep) from the one that starts at position start
\* on, matches being the positions at which sep occurs in s: a piece ends
\* at the first occurrence that starts in it, and the next one starts
\* after that occurrence
PySplitFrom(s, sep, start, matches) ==
    LET ahead == {m \in matches : m >= start}
    IN  IF ahead = {} THEN <<SubSeq(s, start, Len(s))>>
        ELSE <<SubSeq(s, start, SetMin(ahead) - 1)>>
             \o PySplitFrom(s, sep, SetMin(ahead) + Len(sep), matches)

\* s.split(sep) for a non-empty separator
PySplit(s, sep) ==
    PySplitFrom(s, sep, 1,
        {p \in 1..(Len(s) - Len(sep) + 1) :
            s[p] = sep[1] /\ SubSeq(s, p, p + Len(sep) - 1) = sep})

\* what a function of this group returns: None, or a value
ReturnsNone == [none |-> TRUE, value |-> <<>>]
Returns(value) == [none |-> FALSE, value |-> value]

\* the prompt of lines 495-508
FlashcardPrompt(text, num_cards) ==
    [kind |-> "flashcards", num_cards |-> num_cards, text |-> text]

\* line 517
CardBlocks(response_text) == Tail(PySplit(response_text, <<"C", "A", "R", "D">>))

\* line 520
CardLines(block) == PySplit(Strip(block), <<"\n">>)

RECURSIVE ScanCardLinesFirstWins(_, _, _)
\* lines 524-528 with a question or answer once found kept
ScanCardLinesFirstWins(lines, question, answer) ==
    IF lines = <<>> THEN [question |-> question, answer |-> answer]
    ELSE LET line == Head(lines)
         IN  IF StartsWith(line, <<"Q", ":">>)
             THEN ScanCardLinesFirstWins(Tail(lines),
                      IF question = <<>> THEN Strip(From(line, 2)) ELSE question,
                      answer)
             ELSE IF StartsWith(line, <<"A", ":">>)
             THEN ScanCardLinesFirstWins(Tail(lines), question,
                      IF answer = <<>> THEN Strip(From(line, 2)) ELSE answer)
             ELSE ScanCardLinesFirstWins(Tail(lines), question, answer)

RECURSIVE ScanCardLines(_, _, _)
\* lines 524-528: the loop over the lines of one block
ScanCardLines(lines, question, answer) ==
    IF lines = <<>> THEN [question |-> question, answer |-> answer]
    ELSE LET line == Head(lines)
         IN  IF StartsWith(line, <<"Q", ":">>)
             THEN ScanCardLines(Tail(lines), Strip(From(line, 2)), answer)
             ELSE IF StartsWith(line, <<"A", ":">>)
             THEN ScanCardLines(Tail(lines), question, Strip(From(line, 2)))
             ELSE ScanCardLines(Tail(lines), question, answer)

\* line 530 with the answer not looked at
IsCompleteCardQuestionOnly(card) == card.question # <<>>

\* line 530
IsCompleteCard(card) == card.question # <<>> /\ card.answer # <<>>

RECURSIVE ParseCards(_)
\* lines 519-531: the loop over the blocks
ParseCards(card_blocks) ==
    IF card_blocks = <<>> THEN <<>>
    ELSE LET card == ScanCardLines(CardLines(Head(card_blocks)), <<>>, <<>>)
         IN  (IF IsCompleteCard(card) THEN <<card>> ELSE <<>>)
             \o ParseCards(Tail(card_blocks))

\* lines 512-533 with None for an answer that holds no card
FlashcardsResultNoneWhenNoCard(response_text) ==
    IF response_text = <<>> \/ ParseCards(CardBlocks(response_text)) = <<>>
    THEN ReturnsNone
    ELSE Returns(ParseCards(CardBlocks(response_text)))

\* lines 512-533: what create_flashcards returns for a response text
FlashcardsResult(response_text) ==
    IF response_text = <<>> THEN ReturnsNone
    ELSE Returns(ParseCards(CardBlocks(response_text)))

\* lines 545-552
SummaryType(word_count) ==
    IF word_count < 100 THEN "concise"
    ELSE IF word_count < 300 THEN "brief"
    ELSE IF word_count < 600 THEN "moderate"
    ELSE "detailed"

\* the prompt of lines 554-567
SummaryPrompt(text, word_count) ==
    [kind |-> "summary", summary_type |-> SummaryType(word_count),
     word_count |-> word_count, text |-> text]

\* lines 571-581 with the target reported as the count of the summary
SummaryResultCountForced(response_text, word_count) ==
    IF response_text = <<>> THEN ReturnsNone
    ELSE Returns([summary |-> Strip(response_text),
                  actual_word_count |-> word_count,
                  target_word_count |-> word_count])

\* lines 571-581: what create_summary returns for a response text
SummaryResult(response_text, word_count) ==
    IF response_text = <<>> THEN ReturnsNone
    ELSE Returns([summary |-> Strip(response_text),
                  actual_word_count |-> WordCount(Strip(response_text)),
                  target_word_count |-> word_count])

\* the keys of difficulty_instructions, lines 592-596
DifficultyKeys == {"easy", "medium", "hard"}

\* the prompt of lines 598-620; difficulty_instructions[difficulty] is one
\* text per key
QuizPrompt(text, num_questions, difficulty) ==
    [kind |-> "quiz", num_questions |-> num_questions,
     difficulty |-> difficulty, instructions |-> difficulty, text |-> text]

\* line 629
QuestionBlocks(response_text) == Tail(PySplit(response_text, <<"Q", "U", "E", "S", "T", "I", "O", "N">>))

RECURSIVE StripLines(_)
\* [line.strip() for line in lines if line.strip()]
StripLines(lines) ==
    IF lines = <<>> THEN <<>>
    ELSE (IF Strip(Head(lines)) # <<>> THEN <<Strip(Head(lines))>> ELSE <<>>)
         \o StripLines(Tail(lines))

\* line 632
QuestionLines(block) == StripLines(PySplit(Strip(block), <<"\n">>))

\* line.startswith(('A)', 'B)', 'C)', 'D)'))
IsOptionLine(line) ==
    \E prefix \in {<<"A", ")">>, <<"B", ")">>, <<"C", ")">>, <<"D", ")">>} : StartsWith(line, prefix)

\* lines 634-639
EmptyQuestionData ==
    [question |-> <<>>, options |-> <<>>, correct |-> <<>>, explanation |-> <<>>]

RECURSIVE ScanQuestionLines(_, _)
\* lines 641-649: the loop over the lines of one block
ScanQuestionLines(lines, question_data) ==
    IF lines = <<>> THEN question_data
    ELSE LET line == Head(lines)
         IN  ScanQuestionLines(Tail(lines),
                 IF StartsWith(line, <<"Q", ":">>)
                 THEN [question_data EXCEPT !.question = Strip(From(line, 2))]
                 ELSE IF IsOptionLine(line)
                 THEN [question_data EXCEPT !.options = Append(@, line)]
                 ELSE IF StartsWith(line, <<"C", "O", "R", "R", "E", "C", "T", ":">>)
                 THEN [question_data EXCEPT !.correct = Strip(From(line, 8))]
                 ELSE IF StartsWith(line, <<"E", "X", "P", "L", "A", "N", "A", "T", "I", "O", "N", ":">>)
                 THEN [question_data EXCEPT !.explanation = Strip(From(line, 12))]
                 ELSE question_data)

\* line 651 with four options or more
IsCompleteQuestionAtLeastFour(question_data) ==
    question_data.question # <<>> /\ Len(question_data.options) >= 4

\* line 651
IsCompleteQuestion(question_data) ==
    question_data.question # <<>> /\ Len(question_data.options) = 4

RECURSIVE ParseQuestions(_)
\* lines 631-652: the loop over the blocks
ParseQuestions(question_blocks) ==
    IF question_blocks = <<>> THEN <<>>
    ELSE LET question_data ==
                 ScanQuestionLines(QuestionLines(Head(question_blocks)),
                                   EmptyQuestionData)
         IN  (IF IsCompleteQuestion(question_data) THEN <<question_data>>
              ELSE <<>>)
             \o ParseQuestions(Tail(question_blocks))

\* lines 624-654: what create_quiz returns for a response text
QuizResult(response_text) ==
    IF response_text = <<>> THEN ReturnsNone
    ELSE Returns(ParseQuestions(QuestionBlocks(response_text)))

-----------------------------------------------------------------------------
(* Specification of the chunker: every bounded text and size, one call *)

ChunkAlphabet == {"a", " ", "\n"}

RECURSIVE TextsUpTo(_, _)
TextsUpTo(alphabet, n) ==
    IF n = 0 THEN {<<>>}
    ELSE LET shorter == TextsUpTo(alphabet, n - 1)
         IN  shorter \cup {Append(t, c) : t \in {u \in shorter : Len(u) = n - 1},
                                           c \in alphabet}

ChunkIdle ==
    /\ text_arg = Idle
    /\ max_chunk_size = Idle
    /\ chunks_ret = Idle

DepthIdle ==
    /\ complexity_score = Idle
    /\ depth_ret = Idle
    /\ override_ret = Idle

SessionIdle ==
    /\ extracted_text = Idle
    /\ force_detail_level = Idle
    /\ ss_file_stats = Idle
    /\ ss_mindmap_config = Idle
    /\ ss_markdown_content = Idle

MindmapIdle ==
    /\ pc = Idle
    /\ mm = Idle
    /\ calls = Idle
    /\ ret = Idle

AnalyzeIdle ==
    /\ analysis_arg = Idle
    /\ analysis_ret = Idle

StudyIdle ==
    /\ invocation = Idle
    /\ model_calls = Idle
    /\ study_ret = Idle
    /\ st_errors = Idle

AppIdle ==
    /\ uploaded_file = Idle
    /\ current_file = Idle
    /\ rendered = Idle
    /\ ss_summaries = Idle
    /\ ss_current_summary_key = Idle
    /\ ss_flashcards = Idle
    /\ ss_quiz_questions = Idle
    /\ flashcard_current_card = Idle
    /\ flashcard_show_answer = Idle
    /\ flashcard_stats = Idle
    /\ quiz_current_question = Idle
    /\ quiz_user_answers = Idle
    /\ quiz_is_submitted = Idle
    /\ quiz_show_results = Idle
    /\ derived_from = Idle
    /\ producing_config = Idle
    /\ displayed_card = Idle

InitChunk ==
    /\ text_arg \in TextsUpTo(ChunkAlphabet, MaxTextLen)
    /\ max_chunk_size \in 0..MaxSize
    /\ chunks_ret = NotCalled
    /\ DepthIdle
    /\ SessionIdle
    /\ MindmapIdle
    /\ AnalyzeIdle
    /\ StudyIdle
    /\ AppIdle

CallChunk ==
    /\ chunks_ret = NotCalled
    /\ chunks_ret' = Returned(chunk_text_intelligently(text_arg, max_chunk_size))
    /\ UNCHANGED <<text_arg, max_chunk_size, depthVars, sessionVars, mindmapVars,
                   analyzeVars, studyVars,
                   appVars>>

NextChunk == CallChunk

SpecChunk == InitChunk /\ [][NextChunk]_vars

-----------------------------------------------------------------------------
(* Specification of determine_mindmap_depth: the whole scores from         *)
(* -MaxScore to MaxScore and their nearest neighbours, one call            *)

ScoreInputs ==
    {n * ScoreDen + d : n \in (-MaxScore)..MaxScore, d \in {-1, 0, 1}}

InitDepth ==
    /\ complexity_score \in ScoreInputs
    /\ depth_ret = NotCalled
    /\ override_ret = Idle
    /\ ChunkIdle
    /\ SessionIdle
    /\ MindmapIdle
    /\ AnalyzeIdle
    /\ StudyIdle
    /\ AppIdle

CallDepth ==
    /\ depth_ret = NotCalled
    /\ depth_ret' = Returned(determine_mindmap_depth(complexity_score))
    /\ UNCHANGED <<complexity_score, override_ret, chunkVars, sessionVars,
                   mindmapVars, analyzeVars, studyVars,
                   appVars>>

NextDepth == CallDepth

SpecDepth == InitDepth /\ [][NextDepth]_vars

-----------------------------------------------------------------------------
(* Specification of the two ways to a mindmap configuration: for one score *)
(* and one choice of the "Detail Level" selectbox, determine_mindmap_depth *)
(* is called on the score and lines 1018-1032 of main build theirs         *)

InitOverride ==
    /\ complexity_score \in ScoreInputs
    /\ force_detail_level \in DetailLevelOptions
    /\ depth_ret = NotCalled
    /\ override_ret = NotCalled
    /\ extracted_text = Idle
    /\ ss_file_stats = Idle
    /\ ss_mindmap_config = Idle
    /\ ss_markdown_content = Idle
    /\ ChunkIdle
    /\ MindmapIdle
    /\ AnalyzeIdle
    /\ StudyIdle
    /\ AppIdle

\* lines 1018-1032
BuildConfig ==
    /\ override_ret = NotCalled
    /\ override_ret' = Returned(SessionConfig(force_detail_level,
                            [complexity_score |-> complexity_score]))
    /\ UNCHANGED <<complexity_score, depth_ret, chunkVars, sessionVars,
                   mindmapVars, analyzeVars, studyVars,
                   appVars>>

NextOverride == CallDepth \/ BuildConfig

SpecOverride == InitOverride /\ [][NextOverride]_vars

-----------------------------------------------------------------------------
(* Specification of analyze_text_complexity: every text of at most         *)
(* MaxAnalyzeLen characters, the empty one among them, one call            *)

AnalyzeAlphabet == {"A", "a", ".", " ", "\n"}

InitAnalyze ==
    /\ analysis_arg \in TextsUpTo(AnalyzeAlphabet, MaxAnalyzeLen)
    /\ analysis_ret = NotCalled
    /\ ChunkIdle
    /\ DepthIdle
    /\ SessionIdle
    /\ MindmapIdle
    /\ StudyIdle
    /\ AppIdle

CallAnalyze ==
    /\ analysis_ret = NotCalled
    /\ analysis_ret' = Returned(analyze_text_complexity(analysis_arg))
    /\ UNCHANGED <<analysis_arg, chunkVars, depthVars, sessionVars,
                   mindmapVars, studyVars,
                   appVars>>

NextAnalyze == CallAnalyze

SpecAnalyze == InitAnalyze /\ [][NextAnalyze]_vars

-----------------------------------------------------------------------------
(* Specification of mindmap generation: a document has been uploaded and   *)
(* extracted; the user picks a detail level and clicks Generate Mindmap,   *)
(* any number of times; the model answers each call as it likes.           *)

\* extract_text_from_pdf returns text.strip(), never empty (lines 35-38)
Documents ==
    {t \in TextsUpTo({BulkChar, "\n"}, MaxDocLen) : t # <<>> /\ Strip(t) = t}

\* the texts the model may answer with
ResponseTexts == {<<>>, <<" ">>, <<"m">>, <<" ", "n", " ">>}

Outcomes == {Raises} \cup {Responds(t) : t \in ResponseTexts}

\* analyze_text_complexity(text) of lines 185 and 1014, for each document
DocAnalysis == [t \in Documents |-> analyze_text_complexity(t)]

\* chunk_text_intelligently(text, max_chunk_size=25000) of line 198, for each
\* document
DocChunks == [t \in Documents |-> chunk_text_intelligently(t, MindmapChunkSize)]

InitMindmap ==
    /\ extracted_text \in Documents
    /\ force_detail_level = Auto
    /\ ss_file_stats = Absent
    /\ ss_mindmap_config = Absent
    /\ ss_markdown_content = Absent
    /\ pc = "ready"
    /\ mm = [text_analysis |-> DocAnalysis[extracted_text],
             mindmap_config |-> LocalConfig(DocAnalysis[extracted_text]),
             chunks |-> <<>>, i |-> 0, all_mindmaps |-> <<>>]
    /\ calls = <<>>
    /\ ret = NotCalled
    /\ ChunkIdle
    /\ DepthIdle
    /\ AnalyzeIdle
    /\ StudyIdle
    /\ AppIdle

\* lines 1038-1043 of main, with create_mindmap_markdown having returned value
FinishGenerate(value) ==
    /\ ret' = Returned(value)
    /\ ss_markdown_content' =
           IF IsTruthy(value) THEN Stored(value) ELSE ss_markdown_content
    /\ pc' = "ready"

\* The click on Generate Mindmap: lines 1011-1037 of main, then lines
\* 181-207 of create_mindmap_markdown up to its first model call.
GenerateMindmapClick(option) ==
    /\ pc = "ready"
    /\ force_detail_level' = option
    /\ LET file_stats == DocAnalysis[extracted_text]
           text_analysis == DocAnalysis[extracted_text]
           chunks == DocChunks[extracted_text]
       IN  /\ ss_file_stats' = Stored(file_stats)
           /\ ss_mindmap_config' = Stored(SessionConfig(option, file_stats))
           /\ mm' = [text_analysis |-> text_analysis,
                     mindmap_config |-> LocalConfig(text_analysis),
                     chunks |-> chunks, i |-> 1, all_mindmaps |-> <<>>]
           /\ pc' = IF Len(chunks) > 1 THEN "chunk_call" ELSE "single_call"
    /\ calls' = <<>>
    /\ ret' = NotCalled
    /\ UNCHANGED <<extracted_text, ss_markdown_content, chunkVars, depthVars,
                   analyzeVars, studyVars,
                   appVars>>

\* One pass of the loop of lines 207-214: the call for chunk mm.i and what
\* follows it; a raise goes to lines 243-245 and back to main.
ChunkCall(outcome) ==
    /\ pc = "chunk_call"
    /\ calls' = Append(calls,
           [prompt |-> MindmapPrompt(mm.text_analysis, mm.mindmap_config,
                                     mm.chunks[mm.i]),
            outcome |-> outcome])
    /\ IF outcome.raised
       THEN /\ FinishGenerate(None)
            /\ mm' = mm
       ELSE /\ mm' = [mm EXCEPT !.all_mindmaps = Collect(@, outcome.text),
                                !.i = @ + 1]
            /\ pc' = IF mm.i = Len(mm.chunks) THEN "consolidation_call"
                     ELSE "chunk_call"
            /\ UNCHANGED <<ret, ss_markdown_content>>
    /\ UNCHANGED <<extracted_text, force_detail_level, ss_file_stats,
                   ss_mindmap_config, chunkVars, depthVars,
                   analyzeVars, studyVars,
                   appVars>>

\* Lines 217-230: the consolidation call and the return.
ConsolidationCall(outcome) ==
    /\ pc = "consolidation_call"
    /\ calls' = Append(calls,
           [prompt |-> ConsolidationPrompt(mm.mindmap_config,
                                           Join(mm.all_mindmaps)),
            outcome |-> outcome])
    /\ FinishGenerate(IF outcome.raised THEN None
                      ELSE ConsolidationResult(outcome.text))
    /\ UNCHANGED <<mm, extracted_text, force_detail_level, ss_file_stats,
                   ss_mindmap_config, chunkVars, depthVars,
                   analyzeVars, studyVars,
                   appVars>>

\* Lines 232-241: the one call of the single-chunk path and the return.
SingleCall(outcome) ==
    /\ pc = "single_call"
    /\ calls' = Append(calls,
           [prompt |-> MindmapPrompt(mm.text_analysis, mm.mindmap_config,
                                     extracted_text),
            outcome |-> outcome])
    /\ FinishGenerate(IF outcome.raised THEN None
                      ELSE SingleResult(outcome.text))
    /\ UNCHANGED <<mm, extracted_text, force_detail_level, ss_file_stats,
                   ss_mindmap_config, chunkVars, depthVars,
                   analyzeVars, studyVars,
                   appVars>>

NextMindmap ==
    \/ \E option \in DetailLevelOptions : GenerateMindmapClick(option)
    \/ \E outcome \in Outcomes : ChunkCall(outcome)
    \/ \E outcome \in Outcomes : ConsolidationCall(outcome)
    \/ \E outcome \in Outcomes : SingleCall(outcome)

SpecMindmap == InitMindmap /\ [][NextMindmap]_vars

-----------------------------------------------------------------------------
(* Properties of chunk_text_intelligently, under SpecChunk *)

ChunkCalled == chunks_ret # NotCalled

\* the returned list
Chunks == chunks_ret[1]

RECURSIVE Flatten(_)
Flatten(ss) == IF ss = <<>> THEN <<>> ELSE Head(ss) \o Flatten(Tail(ss))

RECURSIVE SepSplit(_)
\* the pieces of s between its occurrences of the separator "\n\n"
SepSplit(s) ==
    LET at == {p \in 1..(Len(s) - 1) : s[p] = "\n" /\ s[p + 1] = "\n"}
    IN  IF at = {} THEN <<s>>
        ELSE <<SubSeq(s, 1, SetMin(at) - 1)>>
                 \o SepSplit(SubSeq(s, SetMin(at) + 2, Len(s)))

\* the paragraphs held by a sequence of chunks, in order
ChunkParagraphs(chunks) ==
    Flatten([j \in 1..Len(chunks) |-> SepSplit(chunks[j])])

IsNonBlank(s) == Strip(s) # <<>>

\* the non-blank members of a sequence of strings, each stripped
Trimmed(ps) ==
    LET kept == SelectSeq(ps, IsNonBlank)
    IN  [k \in 1..Len(kept) |-> Strip(kept[k])]

TextParagraphs == ParaSplit(text_arg)

IsLong == PyLen(text_arg) > max_chunk_size

\* C5: when the text is longer than max_chunk_size and every blank-line
\* delimited paragraph of it is at most max_chunk_size long, every returned
\* chunk is at most max_chunk_size long.
C5_ChunksWithinSize ==
    (/\ ChunkCalled
     /\ IsLong
     /\ \A k \in 1..Len(TextParagraphs) :
            PyLen(TextParagraphs[k]) <= max_chunk_size)
    => \A j \in 1..Len(Chunks) : PyLen(Chunks[j]) <= max_chunk_size

\* C5 witness: a long text of short paragraphs came back as several chunks,
\* one of them holding two paragraphs and filling max_chunk_size exactly.
C5_Witness ==
    /\ ChunkCalled
    /\ IsLong
    /\ \A k \in 1..Len(TextParagraphs) :
           PyLen(TextParagraphs[k]) <= max_chunk_size
    /\ \A k \in 1..Len(TextParagraphs) : IsNonBlank(TextParagraphs[k])
    /\ Len(Chunks) >= 2
    /\ \E j \in 1..Len(Chunks) :
           /\ PyLen(Chunks[j]) = max_chunk_size
           /\ Len(SepSplit(Chunks[j])) = 2

\* C6: for a non-empty text, no returned chunk is the empty string.
C6_NoEmptyChunk ==
    (ChunkCalled /\ text_arg # <<>>)
    => \A j \in 1..Len(Chunks) : Chunks[j] # <<>>

\* C7 as stated: for a text longer than max_chunk_size, the chunks split at
\* their separators give exactly the paragraph sequence of the text.
C7_ExactParagraphs ==
    (ChunkCalled /\ IsLong) => ChunkParagraphs(Chunks) = TextParagraphs

\* C7 amended: for a text longer than max_chunk_size, the chunks split at
\* their separators give, once blank pieces are dropped and the others
\* stripped, the non-blank paragraphs of the text, stripped, in order.
C7_TrimmedParagraphs ==
    (ChunkCalled /\ IsLong)
    => Trimmed(ChunkParagraphs(Chunks)) = Trimmed(TextParagraphs)

\* C7 witness: a long text of three non-blank paragraphs, two of them in
\* one chunk, where stripping changed a paragraph.
C7_Witness ==
    /\ ChunkCalled
    /\ IsLong
    /\ Len(Trimmed(TextParagraphs)) = 3
    /\ Len(Chunks) = 2
    /\ ChunkParagraphs(Chunks) # TextParagraphs

\* C8: a text no longer than max_chunk_size is returned as the one-element
\* list holding it unchanged.
C8_ShortTextSingleChunk ==
    (ChunkCalled /\ ~IsLong) => Chunks = <<text_arg>>

\* C8 witness: a non-blank text exactly max_chunk_size long, with
\* surrounding whitespace, came back whole.
C8_Witness ==
    /\ ChunkCalled
    /\ PyLen(text_arg) = max_chunk_size
    /\ Strip(text_arg) # text_arg
    /\ IsNonBlank(text_arg)
    /\ Chunks = <<text_arg>>

\* C9: every paragraph longer than max_chunk_size is one chunk by itself
\* (the paragraph stripped, as every chunk is): the chunks before it hold
\* the paragraphs before it and the chunks after it the paragraphs after it.
C9_OversizedParagraphAlone ==
    ChunkCalled =>
      \A k \in 1..Len(TextParagraphs) :
        (IsLong /\ PyLen(TextParagraphs[k]) > max_chunk_size) =>
          \E j \in 1..Len(Chunks) :
            /\ Chunks[j] = Strip(TextParagraphs[k])
            /\ Trimmed(ChunkParagraphs(SubSeq(Chunks, 1, j - 1)))
                 = Trimmed(SubSeq(TextParagraphs, 1, k - 1))
            /\ Trimmed(ChunkParagraphs(SubSeq(Chunks, j + 1, Len(Chunks))))
                 = Trimmed(SubSeq(TextParagraphs, k + 1, Len(TextParagraphs)))

\* C9 witness: an oversized paragraph between two paragraphs that would
\* each fit is the middle one of three chunks.
C9_Witness ==
    /\ ChunkCalled
    /\ Len(TextParagraphs) = 3
    /\ \A k \in 1..3 : IsNonBlank(TextParagraphs[k])
    /\ PyLen(TextParagraphs[1]) <= max_chunk_size
    /\ PyLen(TextParagraphs[2]) > max_chunk_size
    /\ PyLen(TextParagraphs[3]) <= max_chunk_size
    /\ Len(Chunks) = 3
    /\ Chunks[2] = TextParagraphs[2]

-----------------------------------------------------------------------------
(* Properties of determine_mindmap_depth, under SpecDepth *)

\* C10: determine_mindmap_depth returns for every score, negative ones
\* included, the configuration of the band the score lies in: below 5
\* basic/3/2, from 5 to below 15 moderate/4/2, from 15 to below 30
\* detailed/5/1, from 30 on comprehensive/6/1; 5, 15 and 30 lie in the
\* higher band.
C10_DepthBands ==
    depth_ret # NotCalled =>
      LET score == complexity_score
          config == depth_ret[1]
      IN  /\ score < 5 * ScoreDen =>
                config = [detail_level |-> "basic", max_levels |-> 3,
                          expand_level |-> 2]
          /\ (5 * ScoreDen <= score /\ score < 15 * ScoreDen) =>
                config = [detail_level |-> "moderate", max_levels |-> 4,
                          expand_level |-> 2]
          /\ (15 * ScoreDen <= score /\ score < 30 * ScoreDen) =>
                config = [detail_level |-> "detailed", max_levels |-> 5,
                          expand_level |-> 1]
          /\ 30 * ScoreDen <= score =>
                config = [detail_level |-> "comprehensive", max_levels |-> 6,
                          expand_level |-> 1]

\* C10 witness: the score 5 itself has been given the moderate band.
C10_Witness ==
    /\ depth_ret # NotCalled
    /\ complexity_score = 5 * ScoreDen
    /\ depth_ret[1].detail_level = "moderate"

-----------------------------------------------------------------------------
(* Properties of create_mindmap_markdown, under SpecMindmap *)

\* create_mindmap_markdown has returned
HasReturned == ret # NotCalled

\* what it returned
Result == ret[1]

NChunks == Len(mm.chunks)

IsChunkCall(c) == c.prompt.kind = "mindmap"

IsConsolidationCall(c) == c.prompt.kind = "consolidation"

\* the call returned text that is not blank
Succeeded(c) == ~c.outcome.raised /\ Strip(c.outcome.text) # <<>>

ChunkCallIndices == {k \in 1..Len(calls) : IsChunkCall(calls[k])}

\* the stripped texts of the chunk calls that succeeded, in chunk order
RECURSIVE SucceededTexts(_)
SucceededTexts(cs) ==
    IF cs = <<>> THEN <<>>
    ELSE (IF IsChunkCall(Head(cs)) /\ Succeeded(Head(cs))
          THEN <<Strip(Head(cs).outcome.text)>> ELSE <<>>)
         \o SucceededTexts(Tail(cs))

\* C1: with n >= 2 chunks and every call so far successful, the calls are
\* the n chunk calls in chunk order and then, only after all n of them, one
\* consolidation call; on return there are exactly n+1 calls and the value
\* returned is the consolidation call's text, stripped.
C1_ChunkCallsThenOneConsolidation ==
    (NChunks >= 2 /\ \A k \in 1..Len(calls) : Succeeded(calls[k])) =>
      /\ Len(calls) <= NChunks + 1
      /\ \A k \in 1..Len(calls) :
            IF k <= NChunks
            THEN IsChunkCall(calls[k]) /\ calls[k].prompt.text = mm.chunks[k]
            ELSE IsConsolidationCall(calls[k])
      /\ pc = "chunk_call" => Len(calls) < NChunks
      /\ pc = "consolidation_call" => Len(calls) = NChunks
      /\ HasReturned =>
            /\ Len(calls) = NChunks + 1
            /\ Result = Strip(calls[NChunks + 1].outcome.text)

\* C1 witness: three chunks, four successful calls, and the value returned
\* is the stripped form of a padded consolidation answer.
C1_Witness ==
    /\ HasReturned
    /\ NChunks = 3
    /\ Len(calls) = 4
    /\ \A k \in 1..4 : Succeeded(calls[k])
    /\ calls[4].outcome.text # Result
    /\ Result = <<"n">>

\* C2: with n >= 2 chunks, when no chunk call gave a result (each raised or
\* returned blank text), create_mindmap_markdown returns None and has made
\* no consolidation call.
C2_NoConsolidationWhenAllChunksFail ==
    (/\ HasReturned
     /\ NChunks >= 2
     /\ \A k \in ChunkCallIndices : ~Succeeded(calls[k]))
    => /\ Result = None
       /\ \A k \in 1..Len(calls) : ~IsConsolidationCall(calls[k])

\* C3: with n >= 2 chunks, when one chunk call raised or returned blank
\* text and another succeeded, all n chunk calls were still made and the
\* consolidation call was made over the successful results joined in chunk
\* order.
C3_FailedChunkIsSkipped ==
    (/\ HasReturned
     /\ NChunks >= 2
     /\ \E k \in ChunkCallIndices : ~Succeeded(calls[k])
     /\ \E k \in ChunkCallIndices : Succeeded(calls[k]))
    => /\ Cardinality(ChunkCallIndices) = NChunks
       /\ Len(calls) = NChunks + 1
       /\ IsConsolidationCall(calls[NChunks + 1])
       /\ calls[NChunks + 1].prompt.text = Join(SucceededTexts(calls))

\* C4: when the detail level chosen for Generate Mindmap is not Auto, every
\* prompt sent carries the detail_level and max_levels of the override
\* configuration.
C4_OverrideShapesEveryPrompt ==
    force_detail_level # Auto =>
      \A k \in 1..Len(calls) :
        /\ calls[k].prompt.detail_level
             = OverrideConfig(force_detail_level).detail_level
        /\ calls[k].prompt.max_levels
             = OverrideConfig(force_detail_level).max_levels

-----------------------------------------------------------------------------
(* Properties of the forced configuration, under SpecOverride *)

\* the selectbox holds one of the four detail levels
IsForced == force_detail_level # Auto

\* both configurations have been built
BothBuilt == depth_ret # NotCalled /\ override_ret # NotCalled

\* C11: for each of the four detail levels, the configuration lines
\* 1018-1032 build for a caller-chosen level has the max_levels and the
\* expand_level of the configuration determine_mindmap_depth returns for
\* a score in that level's band.
C11_OverrideMatchesBand ==
    (BothBuilt /\ IsForced) =>
        /\ override_ret[1].detail_level = LevelMap(force_detail_level)
        /\ (depth_ret[1].detail_level = override_ret[1].detail_level =>
               /\ override_ret[1].max_levels = depth_ret[1].max_levels
               /\ override_ret[1].expand_level = depth_ret[1].expand_level)

\* a forced 'moderate' next to a score of the moderate band
C11_Witness ==
    /\ BothBuilt
    /\ force_detail_level = "Moderate"
    /\ depth_ret[1].detail_level = "moderate"
    /\ override_ret[1] = depth_ret[1]

-----------------------------------------------------------------------------
(* Properties of analyze_text_complexity, under SpecAnalyze *)

Analyzed == analysis_ret # NotCalled

Stats == analysis_ret[1]

\* C12 as stated: analyze_text_complexity("") returns zero for every count
\* (words, characters, sentences, paragraphs, headings) and a
\* complexity_score of 0.
C12_EmptyTextAllZero ==
    (Analyzed /\ analysis_arg = <<>>) =>
        /\ Stats.word_count = 0
        /\ Stats.char_count = 0
        /\ Stats.sentence_count = 0
        /\ Stats.paragraph_count = 0
        /\ Stats.potential_headings = 0
        /\ Stats.complexity_score = 0

\* C12, amended: analyze_text_complexity("") returns without raising, with
\* zero words, characters, sentences and headings, one paragraph, and a
\* complexity_score of 0.04 (120/3000, the share of the one paragraph).
C12_EmptyTextOneParagraph ==
    (Analyzed /\ analysis_arg = <<>>) =>
        Stats = [word_count |-> 0,
                 char_count |-> 0,
                 sentence_count |-> 0,
                 paragraph_count |-> 1,
                 potential_headings |-> 0,
                 complexity_score |-> 120]

\* the empty text has been analyzed
C12_Witness == Analyzed /\ analysis_arg = <<>>

\* C13: for every text, the complexity_score of the result is
\* 0.4*(words/100) + 0.3*(sentences/10) + 0.2*(paragraphs/5) +
\* 0.1*(headings/3) of the counts in the same result, that is
\* 3000*score = 12*words + 90*sentences + 120*paragraphs + 100*headings,
\* and it is never negative.
C13_ScoreFromCounts ==
    Analyzed =>
        /\ Stats.complexity_score =
               12 * Stats.word_count + 90 * Stats.sentence_count
               + 120 * Stats.paragraph_count + 100 * Stats.potential_headings
        /\ Stats.complexity_score >= 0

\* a text in which every count is positive and sentences and paragraphs
\* differ in number
C13_Witness ==
    /\ Analyzed
    /\ Stats.word_count > 0
    /\ Stats.sentence_count > 0
    /\ Stats.potential_headings > 0
    /\ Stats.paragraph_count > Stats.sentence_count

\* C14: when the chunker returns exactly one chunk, create_mindmap_markdown
\* issues exactly one model call, which is no consolidation call, and
\* returns the response text trimmed, or None when the response text is
\* empty or whitespace-only (or the call raised).
C14_SingleChunkSingleCall ==
    (HasReturned /\ NChunks = 1) =>
        /\ Len(calls) = 1
        /\ IsChunkCall(calls[1])
        /\ ~IsConsolidationCall(calls[1])
        /\ calls[1].prompt.text = extracted_text
        /\ Result = IF calls[1].outcome.raised THEN None
                    ELSE IF Strip(calls[1].outcome.text) = <<>> THEN None
                    ELSE Strip(calls[1].outcome.text)

\* one chunk, one call answered with padded text, the trimmed text returned
\* and stored
C14_Witness ==
    /\ HasReturned
    /\ NChunks = 1
    /\ Len(calls) = 1
    /\ calls[1].outcome = Responds(<<" ", "n", " ">>)
    /\ Result = <<"n">>
    /\ ss_markdown_content = Stored(<<"n">>)

\* one chunk, one call answered with a blank text, None returned
C14_WitnessBlank ==
    /\ HasReturned
    /\ NChunks = 1
    /\ calls[1].outcome = Responds(<<" ">>)
    /\ Result = None

-----------------------------------------------------------------------------
(* Specification of the study aids: one call of create_flashcards,         *)
(* create_quiz or create_summary, the model raising or answering with one  *)
(* of the texts below                                                      *)

RECURSIVE JoinLines(_)
\* "\n".join(lines)
JoinLines(lines) ==
    IF lines = <<>> THEN <<>>
    ELSE IF Len(lines) = 1 THEN Head(lines)
    ELSE Head(lines) \o <<"\n">> \o JoinLines(Tail(lines))

\* lines a model may write into a flashcard block
FlashLines ==
    {<<"Q", ":", " ", "x">>, <<"Q", ":", " ", "z">>, <<"Q", ":">>, <<"A", ":", " ", "y">>, <<"A", ":", " ", "w">>, <<"A", ":", " ">>, <<" ", "Q", ":", " ", "x">>}

\* a flashcard block in the format the prompt of lines 500-502 asks for
CardBlock(lines) == <<"C", "A", "R", "D", " ", "1", ":", "\n">> \o JoinLines(lines) \o <<"\n", "\n">>

\* the blocks of the longer answers: two well-formed ones and one without
\* an A: line
CardKinds ==
    {<<<<"Q", ":", " ", "x">>, <<"A", ":", " ", "y">>>>, <<<<"Q", ":", " ", "z">>, <<"A", ":", " ", "w">>>>, <<<<"Q", ":", " ", "x">>>>}

\* what a model may write before the first block
CardPreambles == {<<>>, <<" ">>, <<"Q", ":", " ", "x", "\n", "A", ":", " ", "y", "\n">>}

\* the answers to create_flashcards: every block of at most MaxCardLines
\* lines, and every sequence of at most MaxCards blocks after a preamble
FlashcardResponses ==
    {CardBlock(lines) : lines \in TextsUpTo(FlashLines, MaxCardLines)}
    \cup {preamble \o Flatten([k \in 1..Len(kinds) |-> CardBlock(kinds[k])]) :
              preamble \in CardPreambles,
              kinds \in TextsUpTo(CardKinds, MaxCards)}

\* the Q: lines of a quiz block
QuestionParts ==
    {<<>>, <<<<"Q", ":", " ", "x">>>>, <<<<"Q", ":">>>>, <<<<"Q", ":", " ", "x">>, <<"Q", ":", " ", "z">>>>, <<<<"Q", ":", " ", "x">>, <<"Q", ":">>>>}

\* the k-th option line of a quiz block
OptionLine(k) == <<<<"A", ")", " ", "a">>, <<"B", ")", " ", "b">>, <<"C", ")", " ", "c">>, <<"D", ")", " ", "d">>>>[((k - 1) % 4) + 1]

\* the option lines of a quiz block: none to MaxOptions of them in order,
\* four in reverse order, four times the same
OptionParts ==
    {[k \in 1..n |-> OptionLine(k)] : n \in 0..MaxOptions}
    \cup {<<<<"D", ")", " ", "d">>, <<"C", ")", " ", "c">>, <<"B", ")", " ", "b">>, <<"A", ")", " ", "a">>>>,
          <<<<"A", ")", " ", "a">>, <<"A", ")", " ", "a">>, <<"A", ")", " ", "a">>, <<"A", ")", " ", "a">>>>}

\* the CORRECT: line of a quiz block
CorrectParts ==
    {<<>>, <<<<"C", "O", "R", "R", "E", "C", "T", ":", " ", "A">>>>, <<<<"C", "O", "R", "R", "E", "C", "T", ":", " ", "D">>>>, <<<<"C", "O", "R", "R", "E", "C", "T", ":", " ", "E">>>>,
     <<<<"C", "O", "R", "R", "E", "C", "T", ":", " ", "[", "A", "]">>>>, <<<<"C", "O", "R", "R", "E", "C", "T", ":">>>>}

\* the EXPLANATION: line of a quiz block
ExplanationParts == {<<>>, <<<<"E", "X", "P", "L", "A", "N", "A", "T", "I", "O", "N", ":", " ", "e">>>>}

\* what a model may put in front of each line
Indents == {<<>>, <<" ">>}

\* a quiz block in the format the prompt of lines 604-611 asks for
QuestionBlock(lines, indent) ==
    <<"Q", "U", "E", "S", "T", "I", "O", "N", " ", "1", ":", "\n">>
    \o JoinLines([k \in 1..Len(lines) |-> indent \o lines[k]])
    \o <<"\n", "\n">>

\* the blocks of the longer answers: a full one, one without CORRECT: and
\* EXPLANATION:, a full one but for its three options
QuizKinds ==
    {<<<<"Q", ":", " ", "x">>, <<"A", ")", " ", "a">>, <<"B", ")", " ", "b">>, <<"C", ")", " ", "c">>, <<"D", ")", " ", "d">>, <<"C", "O", "R", "R", "E", "C", "T", ":", " ", "A">>,
       <<"E", "X", "P", "L", "A", "N", "A", "T", "I", "O", "N", ":", " ", "e">>>>,
     <<<<"Q", ":", " ", "z">>, <<"A", ")", " ", "a">>, <<"B", ")", " ", "b">>, <<"C", ")", " ", "c">>, <<"D", ")", " ", "d">>>>,
     <<<<"Q", ":", " ", "x">>, <<"A", ")", " ", "a">>, <<"B", ")", " ", "b">>, <<"C", ")", " ", "c">>, <<"C", "O", "R", "R", "E", "C", "T", ":", " ", "A">>,
       <<"E", "X", "P", "L", "A", "N", "A", "T", "I", "O", "N", ":", " ", "e">>>>}

\* what a model may write before the first block
QuizPreambles == {<<>>, <<" ">>, <<"Q", ":", " ", "x", "\n", "A", ")", " ", "a", "\n", "B", ")", " ", "b", "\n", "C", ")", " ", "c", "\n", "D", ")", " ", "d", "\n">>}

\* the answers to create_quiz: every block made of one choice for each
\* part, and every sequence of at most MaxQuestions blocks after a preamble
QuizResponses ==
    {QuestionBlock(q \o o \o c \o e, indent) :
         q \in QuestionParts, o \in OptionParts, c \in CorrectParts,
         e \in ExplanationParts, indent \in Indents}
    \cup {preamble
          \o Flatten([k \in 1..Len(kinds) |-> QuestionBlock(kinds[k], <<>>)]) :
              preamble \in QuizPreambles,
              kinds \in TextsUpTo(QuizKinds, MaxQuestions)}

\* the answers to create_summary
SummaryResponses == {<<>>, <<" ">>, <<"s">>, <<" ", "s", " ", "t", " ">>, <<"s", "\n", "\n", "t", " ", "u", "\n">>}

\* the document text handed to the three functions
StudyTexts == {<<"a", " ", "b">>}

\* num_cards: the default and the least of the slider of line 1146
NumCards == {10, 5}

\* num_questions: the default of line 587
NumQuestions == {10}

\* difficulty: the keys of difficulty_instructions and one that is none
Difficulties == DifficultyKeys \cup {"extreme"}

\* word_count: around the thresholds of lines 545-552
WordCounts == {99, 100, 299, 300, 599, 600}

OutcomesOf(response_texts) == {Raises} \cup {Responds(t) : t \in response_texts}

\* invocation once a function has been called
Called(call) == <<call>>

InitStudy ==
    /\ invocation = NotCalled
    /\ model_calls = <<>>
    /\ study_ret = NotCalled
    /\ st_errors = 0
    /\ ChunkIdle
    /\ DepthIdle
    /\ SessionIdle
    /\ MindmapIdle
    /\ AnalyzeIdle
    /\ AppIdle

\* the except clause returning None without a call of st.error
ExceptClauseSilent ==
    /\ study_ret' = Returned(ReturnsNone)
    /\ st_errors' = st_errors

\* lines 534-537, 582-585, 655-658: the except clause
ExceptClause ==
    /\ study_ret' = Returned(ReturnsNone)
    /\ st_errors' = st_errors + 1

\* create_flashcards(text, num_cards), lines 490-537
CreateFlashcards ==
    /\ invocation = NotCalled
    /\ \E text \in StudyTexts, num_cards \in NumCards,
          outcome \in OutcomesOf(FlashcardResponses) :
        /\ invocation' = Called([function |-> "create_flashcards",
                                 text |-> text, num_cards |-> num_cards])
        /\ model_calls' = <<[prompt |-> FlashcardPrompt(text, num_cards),
                             outcome |-> outcome]>>
        /\ IF outcome.raised
           THEN ExceptClause
           ELSE /\ study_ret' = Returned(FlashcardsResult(outcome.text))
                /\ st_errors' = st_errors
    /\ UNCHANGED <<chunkVars, depthVars, sessionVars, mindmapVars, analyzeVars,
                   appVars>>

\* create_summary(text, word_count), lines 539-585
CreateSummary ==
    /\ invocation = NotCalled
    /\ \E text \in StudyTexts, word_count \in WordCounts,
          outcome \in OutcomesOf(SummaryResponses) :
        /\ invocation' = Called([function |-> "create_summary",
                                 text |-> text, word_count |-> word_count])
        /\ model_calls' = <<[prompt |-> SummaryPrompt(text, word_count),
                             outcome |-> outcome]>>
        /\ IF outcome.raised
           THEN ExceptClause
           ELSE /\ study_ret' = Returned(SummaryResult(outcome.text, word_count))
                /\ st_errors' = st_errors
    /\ UNCHANGED <<chunkVars, depthVars, sessionVars, mindmapVars, analyzeVars,
                   appVars>>

\* create_quiz(text, num_questions, difficulty), lines 587-658; a difficulty
\* that is no key of difficulty_instructions raises KeyError at line 601,
\* before the model is called
CreateQuiz ==
    /\ invocation = NotCalled
    /\ \E text \in StudyTexts, num_questions \in NumQuestions,
          difficulty \in Difficulties, outcome \in OutcomesOf(QuizResponses) :
        /\ invocation' = Called([function |-> "create_quiz", text |-> text,
                                 num_questions |-> num_questions,
                                 difficulty |-> difficulty])
        /\ IF difficulty \notin DifficultyKeys
           THEN /\ model_calls' = <<>>
                /\ ExceptClause
           ELSE /\ model_calls' = <<[prompt |-> QuizPrompt(text, num_questions,
                                                           difficulty),
                                     outcome |-> outcome]>>
                /\ IF outcome.raised
                   THEN ExceptClause
                   ELSE /\ study_ret' = Returned(QuizResult(outcome.text))
                        /\ st_errors' = st_errors
    /\ UNCHANGED <<chunkVars, depthVars, sessionVars, mindmapVars, analyzeVars,
                   appVars>>

NextStudy == CreateFlashcards \/ CreateSummary \/ CreateQuiz

SpecStudy == InitStudy /\ [][NextStudy]_vars

-----------------------------------------------------------------------------
(* Properties of create_flashcards, create_quiz and create_summary, under  *)
(* SpecStudy                                                               *)

StudyReturned == study_ret # NotCalled

\* the function that was called
Function == invocation[1].function

\* what it returned
StudyResult == study_ret[1]

\* the model was called and answered with a text
Answered == model_calls # <<>> /\ ~model_calls[1].outcome.raised

\* the text of that answer
ResponseText == model_calls[1].outcome.text

\* the invocation raised: at the model call, or before it
Raised == model_calls = <<>> \/ model_calls[1].outcome.raised

\* create_quiz was called with a difficulty that is no key of
\* difficulty_instructions
UnknownDifficulty ==
    Function = "create_quiz" /\ invocation[1].difficulty \notin DifficultyKeys

\* C15 as stated: create_flashcards, create_quiz and create_summary each
\* issue exactly one model call per invocation, and if that call or
\* anything else inside (such as an unknown difficulty key) raises, the
\* function returns None and reports an error.
C15_ExactlyOneCall ==
    StudyReturned =>
        /\ Len(model_calls) = 1
        /\ Raised => (StudyResult.none /\ st_errors = 1)

\* C15, amended: each of the three issues at most one model call per
\* invocation: exactly one, except that create_quiz with an unknown
\* difficulty key raises while building its prompt and issues none.  If
\* the call or anything else inside raises, the function returns None and
\* reports one error; otherwise it reports none.
C15_OneCallUnlessPromptRaises ==
    StudyReturned =>
        /\ Len(model_calls) = IF UnknownDifficulty THEN 0 ELSE 1
        /\ Raised => (StudyResult.none /\ st_errors = 1)
        /\ ~Raised => st_errors = 0

\* create_quiz called with an unknown difficulty: no call, None, one error
C15_Witness ==
    /\ StudyReturned
    /\ UnknownDifficulty
    /\ model_calls = <<>>
    /\ StudyResult.none
    /\ st_errors = 1

\* create_summary whose one call raised: None, one error
C15_WitnessCallRaised ==
    /\ StudyReturned
    /\ Function = "create_summary"
    /\ Len(model_calls) = 1
    /\ model_calls[1].outcome.raised
    /\ StudyResult.none
    /\ st_errors = 1

\* create_flashcards, or create_quiz, has parsed an answer of the model
Parsed(function) ==
    StudyReturned /\ Function = function /\ Answered /\ ~StudyResult.none

\* the lines of a block that start with prefix
PrefixLines(lines, prefix) ==
    SelectSeq(lines, LAMBDA line : StartsWith(line, prefix))

RECURSIVE Contents(_, _)
\* what follows the two-character prefix on each such line, trimmed
Contents(lines, prefix) ==
    IF lines = <<>> THEN <<>>
    ELSE (IF StartsWith(Head(lines), prefix)
          THEN <<Strip(From(Head(lines), 2))>> ELSE <<>>)
         \o Contents(Tail(lines), prefix)

\* the first such content and the last, empty when there is no such line
FirstContent(lines, prefix) ==
    IF Contents(lines, prefix) = <<>> THEN <<>>
    ELSE Contents(lines, prefix)[1]

LastContent(lines, prefix) ==
    IF Contents(lines, prefix) = <<>> THEN <<>>
    ELSE Contents(lines, prefix)[Len(Contents(lines, prefix))]

\* the block has a line with this prefix and non-empty content
HasContentLine(lines, prefix) ==
    \E k \in 1..Len(Contents(lines, prefix)) : Contents(lines, prefix)[k] # <<>>

\* the block has both a Q: line and an A: line with non-empty content
HasBothLines(block) ==
    /\ HasContentLine(CardLines(block), <<"Q", ":">>)
    /\ HasContentLine(CardLines(block), <<"A", ":">>)

\* the last Q: line and the last A: line of the block have non-empty content
HasBothLastLines(block) ==
    /\ LastContent(CardLines(block), <<"Q", ":">>) # <<>>
    /\ LastContent(CardLines(block), <<"A", ":">>) # <<>>

Cards == StudyResult.value

\* C16 as stated: flashcard parsing keeps a block if and only if the block
\* has both a Q: line and an A: line with non-empty content: one card per
\* such block, every card with a non-empty question and answer.
C16_KeptIffBothLines ==
    Parsed("create_flashcards") =>
        /\ Len(Cards) = Len(SelectSeq(CardBlocks(ResponseText), HasBothLines))
        /\ \A k \in 1..Len(Cards) :
               Cards[k].question # <<>> /\ Cards[k].answer # <<>>

\* C16, amended: flashcard parsing keeps a block if and only if the last
\* Q: line and the last A: line of the block both have non-empty content:
\* one card per such block, in response order, every card with a non-empty
\* question and answer taken from a Q: line and an A: line of its block; a
\* block without an A: line contributes nothing.
C16_KeptIffBothLastLines ==
    Parsed("create_flashcards") =>
        LET kept == SelectSeq(CardBlocks(ResponseText), HasBothLastLines)
        IN  /\ Len(Cards) = Len(kept)
            /\ \A k \in 1..Len(Cards) :
                   /\ Cards[k].question # <<>>
                   /\ Cards[k].answer # <<>>
                   /\ \E j \in 1..Len(Contents(CardLines(kept[k]), <<"Q", ":">>)) :
                          Cards[k].question = Contents(CardLines(kept[k]), <<"Q", ":">>)[j]
                   /\ \E j \in 1..Len(Contents(CardLines(kept[k]), <<"A", ":">>)) :
                          Cards[k].answer = Contents(CardLines(kept[k]), <<"A", ":">>)[j]

\* three well-formed blocks and one without an A: line, in any order, give
\* the three cards of the well-formed blocks in their order
C16_Witness ==
    /\ Parsed("create_flashcards")
    /\ Len(CardBlocks(ResponseText)) = 4
    /\ Len(SelectSeq(CardBlocks(ResponseText),
                     LAMBDA block : Contents(CardLines(block), <<"A", ":">>) = <<>>)) = 1
    /\ Cards = <<[question |-> <<"x">>, answer |-> <<"y">>],
                 [question |-> <<"z">>, answer |-> <<"w">>],
                 [question |-> <<"x">>, answer |-> <<"y">>]>>

\* the block has more than one Q: line or more than one A: line
HasRepeatedLine(block) ==
    \/ Len(Contents(CardLines(block), <<"Q", ":">>)) > 1
    \/ Len(Contents(CardLines(block), <<"A", ":">>)) > 1

\* C17 as stated: when a flashcard block has more than one line starting
\* with Q: or A:, the card's question and answer are those of the first
\* line with each prefix.
C17_FirstOccurrenceWins ==
    Parsed("create_flashcards") =>
        LET kept == SelectSeq(CardBlocks(ResponseText), HasBothLastLines)
        IN  \A k \in 1..Len(Cards) :
                HasRepeatedLine(kept[k]) =>
                    /\ Cards[k].question = FirstContent(CardLines(kept[k]), <<"Q", ":">>)
                    /\ Cards[k].answer = FirstContent(CardLines(kept[k]), <<"A", ":">>)

\* C17, amended: when a flashcard block has more than one line starting
\* with Q: or A:, the card's question and answer are those of the last
\* line with each prefix; the earlier ones are overwritten.
C17_LastOccurrenceWins ==
    Parsed("create_flashcards") =>
        LET kept == SelectSeq(CardBlocks(ResponseText), HasBothLastLines)
        IN  /\ Len(Cards) = Len(kept)
            /\ \A k \in 1..Len(Cards) :
                   HasRepeatedLine(kept[k]) =>
                       /\ Cards[k].question = LastContent(CardLines(kept[k]), <<"Q", ":">>)
                       /\ Cards[k].answer = LastContent(CardLines(kept[k]), <<"A", ":">>)

\* a block with the lines Q: x, Q: z, A: y gives the card (z, y)
C17_Witness ==
    /\ Parsed("create_flashcards")
    /\ ResponseText = CardBlock(<<<<"Q", ":", " ", "x">>, <<"Q", ":", " ", "z">>, <<"A", ":", " ", "y">>>>)
    /\ Cards = <<[question |-> <<"z">>, answer |-> <<"y">>]>>

Questions == StudyResult.value

\* the option lines of a quiz block, in the order met
OptionLinesOf(block) == SelectSeq(QuestionLines(block), IsOptionLine)

\* the question string of a quiz block
QuestionOf(block) == LastContent(QuestionLines(block), <<"Q", ":">>)

\* the block has a line starting with prefix
HasLine(block, prefix) == PrefixLines(QuestionLines(block), prefix) # <<>>

\* a non-empty question string and exactly four option lines
IsAcceptable(block) ==
    QuestionOf(block) # <<>> /\ Len(OptionLinesOf(block)) = 4

\* C18: quiz parsing accepts a block if and only if it has a non-empty
\* question string and exactly 4 collected option lines, whether CORRECT:
\* and EXPLANATION: are there or not; every question of the result has
\* exactly 4 options, those of its block in the order met.
C18_AcceptedIffFourOptions ==
    Parsed("create_quiz") =>
        LET accepted == SelectSeq(QuestionBlocks(ResponseText), IsAcceptable)
        IN  /\ Len(Questions) = Len(accepted)
            /\ \A k \in 1..Len(Questions) :
                   /\ Len(Questions[k].options) = 4
                   /\ Questions[k].options = OptionLinesOf(accepted[k])
                   /\ Questions[k].question = QuestionOf(accepted[k])

\* the blocks of one answer: one with three options, Q:, CORRECT: and
\* EXPLANATION: is left out; one with four options and neither CORRECT: nor
\* EXPLANATION: is kept, and so is one more, with another correct field
C18_Witness ==
    /\ Parsed("create_quiz")
    /\ Len(QuestionBlocks(ResponseText)) = 3
    /\ \E k \in 1..3 :
           LET block == QuestionBlocks(ResponseText)[k]
           IN  /\ Len(OptionLinesOf(block)) = 3
               /\ QuestionOf(block) # <<>>
               /\ HasLine(block, <<"C", "O", "R", "R", "E", "C", "T", ":">>)
               /\ HasLine(block, <<"E", "X", "P", "L", "A", "N", "A", "T", "I", "O", "N", ":">>)
    /\ \E k \in 1..3 :
           LET block == QuestionBlocks(ResponseText)[k]
           IN  /\ Len(OptionLinesOf(block)) = 4
               /\ ~HasLine(block, <<"C", "O", "R", "R", "E", "C", "T", ":">>)
               /\ ~HasLine(block, <<"E", "X", "P", "L", "A", "N", "A", "T", "I", "O", "N", ":">>)
    /\ Len(Questions) = 2
    /\ Questions[1].correct # Questions[2].correct

\* a block with five options, Q:, CORRECT: and EXPLANATION: is left out
C18_WitnessFive ==
    /\ Parsed("create_quiz")
    /\ Len(QuestionBlocks(ResponseText)) = 1
    /\ Len(OptionLinesOf(QuestionBlocks(ResponseText)[1])) = 5
    /\ QuestionOf(QuestionBlocks(ResponseText)[1]) # <<>>
    /\ HasLine(QuestionBlocks(ResponseText)[1], <<"C", "O", "R", "R", "E", "C", "T", ":">>)
    /\ HasLine(QuestionBlocks(ResponseText)[1], <<"E", "X", "P", "L", "A", "N", "A", "T", "I", "O", "N", ":">>)
    /\ Questions = <<>>

\* C19: for every question in the result of create_quiz, the correct field
\* is one of "A", "B", "C", "D", or empty when the model left the CORRECT:
\* line out; no other value is ever stored.
C19_CorrectIsALetter ==
    Parsed("create_quiz") =>
        \A k \in 1..Len(Questions) :
            Questions[k].correct \in {<<"A">>, <<"B">>, <<"C">>, <<"D">>, <<>>}

\* the answer has no block that yields a record
NoWellFormedBlock ==
    CASE Function = "create_flashcards" ->
             SelectSeq(CardBlocks(ResponseText), HasBothLastLines) = <<>>
      [] Function = "create_quiz" ->
             SelectSeq(QuestionBlocks(ResponseText), IsAcceptable) = <<>>

\* C20: when the model returns non-empty text in which no block is
\* well-formed, create_flashcards and create_quiz return an empty sequence,
\* not None; None is returned only when the model's text is empty or an
\* exception occurred.
C20_EmptySequenceNotNone ==
    (StudyReturned /\ Function \in {"create_flashcards", "create_quiz"}) =>
        /\ StudyResult.none <=> (Raised \/ ResponseText = <<>>)
        /\ (~StudyResult.none /\ NoWellFormedBlock) => StudyResult.value = <<>>

\* create_quiz answered with one block of three options: an empty list
C20_Witness ==
    /\ Parsed("create_quiz")
    /\ Len(QuestionBlocks(ResponseText)) = 1
    /\ Len(OptionLinesOf(QuestionBlocks(ResponseText)[1])) = 3
    /\ QuestionOf(QuestionBlocks(ResponseText)[1]) # <<>>
    /\ Questions = <<>>

\* create_flashcards answered with blank text: an empty list
C20_WitnessBlank ==
    /\ Parsed("create_flashcards")
    /\ ResponseText = <<" ">>
    /\ Cards = <<>>

RECURSIVE TokensFrom(_, _)
\* the whitespace-delimited tokens of s, token being the one read so far
TokensFrom(s, token) ==
    IF s = <<>> THEN (IF token = <<>> THEN <<>> ELSE <<token>>)
    ELSE IF IsSpace(Head(s))
         THEN (IF token = <<>> THEN <<>> ELSE <<token>>) \o TokensFrom(Tail(s), <<>>)
         ELSE TokensFrom(Tail(s), Append(token, Head(s)))

Tokens(s) == TokensFrom(s, <<>>)

\* create_summary returned a dict
Summarized == StudyReturned /\ Function = "create_summary" /\ ~StudyResult.none

Summary == StudyResult.value

\* C21: every non-null result of create_summary(text, w) has
\* target_word_count equal to w and actual_word_count equal to the number
\* of whitespace-delimited tokens of the returned summary text, which is
\* the model's answer trimmed: nothing is altered to make actual equal
\* target.
C21_SummaryCounts ==
    Summarized =>
        /\ Summary.target_word_count = invocation[1].word_count
        /\ Summary.actual_word_count = Len(Tokens(Summary.summary))
        /\ Summary.summary = Strip(ResponseText)

\* a summary of three words for a target of 99, returned as it is
C21_Witness ==
    /\ Summarized
    /\ invocation[1].word_count = 99
    /\ Summary.summary = <<"s", "\n", "\n", "t", " ", "u">>
    /\ Summary.actual_word_count = 3
    /\ Summary.target_word_count = 99

-----------------------------------------------------------------------------
(* A further property of create_mindmap_markdown, under SpecMindmap *)

\* C24: create_mindmap_markdown never returns an empty string: on the
\* single-chunk and on the multi-chunk path its result is None or a
\* non-empty string without leading or trailing whitespace, also when the
\* final model response is whitespace-only.
C24_NeverEmptyString ==
    HasReturned =>
        \/ Result = None
        \/ (Result # <<>> /\ Strip(Result) = Result)

-----------------------------------------------------------------------------
\* The application: main, lines 945-1212, display_flashcards, lines 660-762,
\* and display_quiz, lines 764-911.  Streamlit runs main from the top after
\* every interaction; one action below is one such run together with the
\* run that an st.rerun() of its handler starts.  In these specifications
\* extracted_text holds Absent or Stored(text), as the session key does.

\* extract_text_from_pdf(pdf_file), lines 26-41: the text of the pages that
\* have some, each followed by a newline (lines 31-34)
RECURSIVE PageTexts(_)
PageTexts(pages) ==
    IF pages = <<>> THEN <<>>
    ELSE (IF Head(pages) # <<>> THEN Head(pages) \o <<"\n">> ELSE <<>>)
         \o PageTexts(Tail(pages))

\* lines 28-41: None for a file PdfReader cannot read (lines 39-41) or one
\* without text (lines 35-37), the stripped text otherwise
extract_text_from_pdf(pdf_file) ==
    IF ~pdf_file.readable THEN None
    ELSE IF Strip(PageTexts(pdf_file.pages)) = <<>> THEN None
    ELSE Strip(PageTexts(pdf_file.pages))

\* line 958 with every text taken for a good one
TextExtractedAlways(text) == TRUE

\* line 958, "if text:"
TextExtracted(text) == IsTruthy(text)

\* the files a user uploads: two with text, one whose pages have none and
\* one that is no PDF
Files ==
    {[name |-> "a.pdf", readable |-> TRUE, pages |-> <<<<"a", " ", "b">>>>],
     [name |-> "b.pdf", readable |-> TRUE, pages |-> <<<<"c", ".">>, <<>>, <<"d">>>>],
     [name |-> "c.pdf", readable |-> TRUE, pages |-> <<<<" ">>, <<>>>>],
     [name |-> "d.pdf", readable |-> FALSE, pages |-> <<>>]}

\* line 955: whether the run extracts the text of the uploaded file
NeedsExtraction(file) ==
    extracted_text = Absent \/ current_file # Stored(file.name)

\* hash(text[:100]) of line 1116: equal for equal prefixes, and taken to
\* differ for different ones
PrefixHash(text) == SubSeq(text, 1, IF Len(text) < 100 THEN Len(text) ELSE 100)

\* line 1116
SummaryKey(summary_length, text) ==
    [summary_length |-> summary_length, text_hash |-> PrefixHash(text)]

\* the session entry under a key, as a set of at most one result
SummaryUnder(key) == {e.result : e \in {s \in ss_summaries : s.key = key}}

\* lines 1128-1129: the summary the Summary tab displays, if any
DisplayedSummary ==
    IF ss_current_summary_key = Absent THEN {}
    ELSE SummaryUnder(ss_current_summary_key[1])

\* the largest number of cards and of questions a model's answer has
MaxDeck == 2
MaxQuiz == 2

\* the largest count display_flashcards keeps in flashcard_stats
MaxAnswered == 2

\* an answer of n well-formed blocks to create_flashcards
RECURSIVE DeckResponse(_)
DeckResponse(n) ==
    IF n = 0 THEN <<>>
    ELSE DeckResponse(n - 1) \o CardBlock(<<<<"Q", ":", " ", "x">>, <<"A", ":", " ", "y">>>>)

\* an answer of n well-formed blocks to create_quiz
RECURSIVE QuizResponse(_)
QuizResponse(n) ==
    IF n = 0 THEN <<>>
    ELSE QuizResponse(n - 1)
         \o QuestionBlock(<<<<"Q", ":", " ", "x">>, <<"A", ")", " ", "a">>, <<"B", ")", " ", "b">>, <<"C", ")", " ", "c">>, <<"D", ")", " ", "d">>,
                            <<"C", "O", "R", "R", "E", "C", "T", ":", " ", "A">>, <<"E", "X", "P", "L", "A", "N", "A", "T", "I", "O", "N", ":", " ", "e">>>>, <<>>)

\* what the model does in a run of the application
MindmapOutcomes == {Raises, Responds(<<" ">>), Responds(<<"m">>)}
SummaryOutcomes == {Raises, Responds(<<"s", " ", "t">>)}
FlashcardOutcomes == {Raises} \cup {Responds(DeckResponse(n)) : n \in 0..MaxDeck}
QuizOutcomes == {Raises} \cup {Responds(QuizResponse(n)) : n \in 0..MaxQuiz}

\* the widgets' values: the selectbox of line 999, the sliders of lines
\* 1112, 1146 and 1173 and the selectbox of line 1175 at their defaults
SessionOptions == {Auto, "Detailed"}
SummaryLengths == {300}

\* what each function returns to main for an outcome of its one call
MindmapReturn == [o \in MindmapOutcomes |->
    IF o.raised THEN None ELSE SingleResult(o.text)]
SummaryReturn == [summary_length \in SummaryLengths, o \in SummaryOutcomes |->
    IF o.raised THEN ReturnsNone ELSE SummaryResult(o.text, summary_length)]
FlashcardsReturn == [o \in FlashcardOutcomes |->
    IF o.raised THEN ReturnsNone ELSE FlashcardsResult(o.text)]
QuizReturn == [o \in QuizOutcomes |->
    IF o.raised THEN ReturnsNone ELSE QuizResult(o.text)]

\* "if cards:", "if quiz_questions:", "if summary_result:" of lines 1152,
\* 1180 and 1120, and the second test of lines 1162 and 1190
IsTruthyResult(result) == ~result.none /\ result.value # <<>>

\* the kinds of artifact main derives from the text of a file
ArtifactKinds == {"file_stats", "markdown_content", "mindmap_config",
                  "summary", "flashcards", "quiz_questions"}

\* the viewer keys as one record, and their assignment
FlashcardState ==
    [current_card |-> flashcard_current_card,
     show_answer |-> flashcard_show_answer,
     stats |-> flashcard_stats]

QuizState ==
    [current_question |-> quiz_current_question,
     user_answers |-> quiz_user_answers,
     is_submitted |-> quiz_is_submitted,
     show_results |-> quiz_show_results]

\* lines 1155-1158 with 'flashcard_current_card' and 'flashcard_show_answer'
\* left in the session
DeletedFlashcardStateStatsOnly ==
    [current_card |-> flashcard_current_card,
     show_answer |-> flashcard_show_answer, stats |-> Absent]

\* the keys deleted at lines 1155-1158, 1183-1186 and 905-909
DeletedFlashcardState ==
    [current_card |-> Absent, show_answer |-> Absent, stats |-> Absent]

DeletedQuizState ==
    [current_question |-> Absent, user_answers |-> Absent,
     is_submitted |-> Absent, show_results |-> Absent]

\* lines 669-678 of display_flashcards: the keys are initialised when
\* absent, and an index past the last card becomes 0
display_flashcards(cards, state) ==
    LET current_card == IF state.current_card = Absent THEN 0
                        ELSE state.current_card[1]
    IN  [current_card |-> Stored(IF current_card >= Len(cards) THEN 0
                                 ELSE current_card),
         show_answer |-> IF state.show_answer = Absent THEN Stored(FALSE)
                         ELSE state.show_answer,
         stats |-> IF state.stats = Absent
                   THEN Stored([correct |-> 0, incorrect |-> 0])
                   ELSE state.stats]

\* the empty dict of line 775
NoAnswers == <<>>

\* lines 772-784 of display_quiz
display_quiz(questions, state) ==
    LET current_question == IF state.current_question = Absent THEN 0
                            ELSE state.current_question[1]
    IN  [current_question |-> Stored(IF current_question >= Len(questions)
                                     THEN 0 ELSE current_question),
         user_answers |-> IF state.user_answers = Absent THEN Stored(NoAnswers)
                          ELSE state.user_answers,
         is_submitted |-> IF state.is_submitted = Absent THEN Stored(FALSE)
                          ELSE state.is_submitted,
         show_results |-> IF state.show_results = Absent THEN Stored(FALSE)
                          ELSE state.show_results]

\* lines 1162-1163: the Flashcards tab, entered with the given keys
FlashcardsTab(flashcards, state) ==
    IF flashcards # Absent /\ flashcards[1] # <<>>
    THEN LET shown == display_flashcards(flashcards[1], state)
         IN  /\ flashcard_current_card' = shown.current_card
             /\ flashcard_show_answer' = shown.show_answer
             /\ flashcard_stats' = shown.stats
             /\ displayed_card' = shown.current_card
    ELSE /\ flashcard_current_card' = state.current_card
         /\ flashcard_show_answer' = state.show_answer
         /\ flashcard_stats' = state.stats
         /\ displayed_card' = Absent

\* f"question_{i}", lines 799 and 860
AnswerKey(i) == <<"question_", i>>

\* lines 802-808: the option the radio of line 810 starts on, the first one
\* that begins with the recorded answer, if there is one
RECURSIVE FirstOptionFrom(_, _, _)
FirstOptionFrom(options, user_answer, i) ==
    IF i > Len(options) THEN Absent
    ELSE IF StartsWith(options[i], user_answer) THEN Stored(options[i])
    ELSE FirstOptionFrom(options, user_answer, i + 1)

CurrentAnswerOption(current_q, user_answers, answer_key) ==
    IF answer_key \in DOMAIN user_answers
    THEN FirstOptionFrom(current_q.options, user_answers[answer_key], 1)
    ELSE Absent

\* lines 786-818, quiz mode: the radio gives the user's choice, or else the
\* option it started on, and "if selected:" records its first character
QuizMode(questions, state, choice) ==
    IF state.show_results[1] THEN state
    ELSE LET current_q == questions[state.current_question[1] + 1]
             answer_key == AnswerKey(state.current_question[1])
             selected == IF choice # Absent THEN choice
                         ELSE CurrentAnswerOption(current_q,
                                  state.user_answers[1], answer_key)
         IN  IF selected # Absent /\ selected[1] # <<>>
             THEN [state EXCEPT !.user_answers =
                      Stored((answer_key :> SubSeq(selected[1], 1, 1)) @@ @[1])]
             ELSE state

\* lines 1190-1191: the Quiz tab, entered with the given keys and the
\* user's choice on the radio, if any
QuizTabWith(quiz_questions, state, choice) ==
    LET shown == IF quiz_questions # Absent /\ quiz_questions[1] # <<>>
                 THEN QuizMode(quiz_questions[1],
                               display_quiz(quiz_questions[1], state), choice)
                 ELSE state
    IN  /\ quiz_current_question' = shown.current_question
        /\ quiz_user_answers' = shown.user_answers
        /\ quiz_is_submitted' = shown.is_submitted
        /\ quiz_show_results' = shown.show_results

\* the Quiz tab in a run in which the radio is not touched
QuizTab(quiz_questions, state) == QuizTabWith(quiz_questions, state, Absent)

\* a run that reaches the end of main: every tab is drawn
AllTabs(flashcards, flashcard_state, quiz_questions, quiz_state) ==
    /\ rendered' = "all"
    /\ FlashcardsTab(flashcards, flashcard_state)
    /\ QuizTab(quiz_questions, quiz_state)

\* a run that returns before the tabs (line 970) or before the second tab
\* (line 1043): the viewers are not called
NoViewer ==
    /\ displayed_card' = Absent
    /\ UNCHANGED <<flashcardVars, quizVars>>

\* the other specifications' variables
SessionFrame ==
    UNCHANGED <<chunkVars, depthVars, mindmapVars, analyzeVars, studyVars>>

InitSession ==
    /\ uploaded_file = Absent
    /\ extracted_text = Absent
    /\ current_file = Absent
    /\ rendered = "none"
    /\ force_detail_level = Auto
    /\ ss_file_stats = Absent
    /\ ss_mindmap_config = Absent
    /\ ss_markdown_content = Absent
    /\ ss_summaries = {}
    /\ ss_current_summary_key = Absent
    /\ ss_flashcards = Absent
    /\ ss_quiz_questions = Absent
    /\ flashcard_current_card = Absent
    /\ flashcard_show_answer = Absent
    /\ flashcard_stats = Absent
    /\ quiz_current_question = Absent
    /\ quiz_user_answers = Absent
    /\ quiz_is_submitted = Absent
    /\ quiz_show_results = Absent
    /\ derived_from = [kind \in ArtifactKinds |-> Absent]
    /\ producing_config = Absent
    /\ displayed_card = Absent
    /\ ChunkIdle
    /\ DepthIdle
    /\ MindmapIdle
    /\ AnalyzeIdle
    /\ StudyIdle

\* the kinds whose keys line 962 names and lines 964-966 delete;
\* 'summary_result' is no key main ever stores (lines 1116 and 1121-1122)
ClearedKinds == {"file_stats", "markdown_content", "mindmap_config",
                 "flashcards", "quiz_questions"}

\* a run with the uploader holding the given file, or none: lines 951-970
\* and, when the run goes on, the tabs with no button clicked
Upload(file) ==
    /\ uploaded_file' = file
    /\ IF file = Absent
       THEN /\ rendered' = "none"
            /\ NoViewer
            /\ UNCHANGED <<extracted_text, current_file, ss_file_stats,
                           ss_mindmap_config, ss_markdown_content,
                           ss_flashcards, ss_quiz_questions, derived_from,
                           producing_config>>
       ELSE IF ~NeedsExtraction(file[1])
       THEN /\ AllTabs(ss_flashcards, FlashcardState,
                       ss_quiz_questions, QuizState)
            /\ UNCHANGED <<extracted_text, current_file, ss_file_stats,
                           ss_mindmap_config, ss_markdown_content,
                           ss_flashcards, ss_quiz_questions, derived_from,
                           producing_config>>
       ELSE IF TextExtracted(extract_text_from_pdf(file[1]))
       THEN /\ extracted_text' = Stored(extract_text_from_pdf(file[1]))
            /\ current_file' = Stored(file[1].name)
            /\ ss_file_stats' = Absent
            /\ ss_markdown_content' = Absent
            /\ ss_mindmap_config' = Absent
            /\ ss_flashcards' = Absent
            /\ ss_quiz_questions' = Absent
            /\ derived_from' = [kind \in ArtifactKinds |->
                   IF kind \in ClearedKinds THEN Absent
                   ELSE derived_from[kind]]
            /\ producing_config' = Absent
            /\ AllTabs(Absent, FlashcardState, Absent, QuizState)
       ELSE /\ rendered' = "none"
            /\ NoViewer
            /\ UNCHANGED <<extracted_text, current_file, ss_file_stats,
                           ss_mindmap_config, ss_markdown_content,
                           ss_flashcards, ss_quiz_questions, derived_from,
                           producing_config>>
    /\ UNCHANGED <<force_detail_level, ss_summaries, ss_current_summary_key>>
    /\ SessionFrame

\* a run with Generate Mindmap clicked, lines 1010-1043, for a text of one
\* chunk; the tabs are drawn after line 1041 and not after line 1043
GenerateMindmap(option, outcome) ==
    /\ rendered \in {"mindmap_tab", "all"}
    /\ Len(chunk_text_intelligently(extracted_text[1], MindmapChunkSize)) = 1
    /\ force_detail_level' = option
    /\ LET file_stats == analyze_text_complexity(extracted_text[1])
           mindmap_config == SessionConfig(option, file_stats)
           markdown_content == MindmapReturn[outcome]
       IN  /\ ss_file_stats' = Stored(file_stats)
           /\ ss_mindmap_config' = Stored(mindmap_config)
           /\ IF IsTruthy(markdown_content)
              THEN /\ ss_markdown_content' = Stored(markdown_content)
                   /\ producing_config' = Stored(mindmap_config)
                   /\ derived_from' = [derived_from EXCEPT
                          !["file_stats"] = current_file,
                          !["mindmap_config"] = current_file,
                          !["markdown_content"] = current_file]
                   /\ AllTabs(ss_flashcards, FlashcardState,
                              ss_quiz_questions, QuizState)
              ELSE /\ derived_from' = [derived_from EXCEPT
                          !["file_stats"] = current_file,
                          !["mindmap_config"] = current_file]
                   /\ rendered' = "mindmap_tab"
                   /\ NoViewer
                   /\ UNCHANGED <<ss_markdown_content, producing_config>>
    /\ UNCHANGED <<uploaded_file, extracted_text, current_file, storeVars>>
    /\ SessionFrame

\* a run with Analyze Document clicked, lines 1203-1212
AnalyzeDocument ==
    /\ rendered = "all"
    /\ LET file_stats == analyze_text_complexity(extracted_text[1])
       IN  /\ ss_file_stats' = Stored(file_stats)
           /\ ss_mindmap_config' =
                  Stored(determine_mindmap_depth(file_stats.complexity_score))
    /\ derived_from' = [derived_from EXCEPT !["file_stats"] = current_file,
                                            !["mindmap_config"] = current_file]
    /\ AllTabs(ss_flashcards, FlashcardState, ss_quiz_questions, QuizState)
    /\ UNCHANGED <<uploaded_file, extracted_text, current_file,
                   force_detail_level, ss_markdown_content, storeVars,
                   producing_config>>
    /\ SessionFrame

\* a run with Generate Summary clicked, lines 1114-1124
GenerateSummary(summary_length, outcome) ==
    /\ rendered = "all"
    /\ LET summary_key == SummaryKey(summary_length, extracted_text[1])
           summary_result == SummaryReturn[summary_length, outcome]
       IN  IF ~summary_result.none
           THEN /\ ss_summaries' =
                       {s \in ss_summaries : s.key # summary_key}
                       \cup {[key |-> summary_key,
                              result |-> summary_result.value]}
                /\ ss_current_summary_key' = Stored(summary_key)
                /\ derived_from' = [derived_from EXCEPT
                       !["summary"] = current_file]
           ELSE UNCHANGED <<ss_summaries, ss_current_summary_key,
                            derived_from>>
    /\ AllTabs(ss_flashcards, FlashcardState, ss_quiz_questions, QuizState)
    /\ UNCHANGED <<uploaded_file, extracted_text, current_file,
                   force_detail_level, ss_file_stats, ss_mindmap_config,
                   ss_markdown_content, ss_flashcards, ss_quiz_questions,
                   producing_config>>
    /\ SessionFrame

\* a run with Generate Flashcards clicked, lines 1148-1163
GenerateFlashcards(outcome) ==
    /\ rendered = "all"
    /\ LET cards == FlashcardsReturn[outcome]
       IN  IF IsTruthyResult(cards)
           THEN /\ ss_flashcards' = Stored(cards.value)
                /\ derived_from' = [derived_from EXCEPT
                       !["flashcards"] = current_file]
                /\ AllTabs(Stored(cards.value), DeletedFlashcardState,
                           ss_quiz_questions, QuizState)
           ELSE /\ UNCHANGED <<ss_flashcards, derived_from>>
                /\ AllTabs(ss_flashcards, FlashcardState,
                           ss_quiz_questions, QuizState)
    /\ UNCHANGED <<uploaded_file, extracted_text, current_file,
                   force_detail_level, ss_file_stats, ss_mindmap_config,
                   ss_markdown_content, ss_summaries, ss_current_summary_key,
                   ss_quiz_questions, producing_config>>
    /\ SessionFrame

\* a run with Generate Quiz clicked, lines 1176-1191
GenerateQuiz(outcome) ==
    /\ rendered = "all"
    /\ LET quiz_questions == QuizReturn[outcome]
       IN  IF IsTruthyResult(quiz_questions)
           THEN /\ ss_quiz_questions' = Stored(quiz_questions.value)
                /\ derived_from' = [derived_from EXCEPT
                       !["quiz_questions"] = current_file]
                /\ AllTabs(ss_flashcards, FlashcardState,
                           Stored(quiz_questions.value), DeletedQuizState)
           ELSE /\ UNCHANGED <<ss_quiz_questions, derived_from>>
                /\ AllTabs(ss_flashcards, FlashcardState,
                           ss_quiz_questions, QuizState)
    /\ UNCHANGED <<uploaded_file, extracted_text, current_file,
                   force_detail_level, ss_file_stats, ss_mindmap_config,
                   ss_markdown_content, ss_summaries, ss_current_summary_key,
                   ss_flashcards, producing_config>>
    /\ SessionFrame

NextSession ==
    \/ \E file \in {Absent} \cup {Stored(f) : f \in Files} : Upload(file)
    \/ \E option \in SessionOptions, outcome \in MindmapOutcomes :
           GenerateMindmap(option, outcome)
    \/ AnalyzeDocument
    \/ \E summary_length \in SummaryLengths, outcome \in SummaryOutcomes :
           GenerateSummary(summary_length, outcome)
    \/ \E outcome \in FlashcardOutcomes : GenerateFlashcards(outcome)
    \/ \E outcome \in QuizOutcomes : GenerateQuiz(outcome)

SpecSession == InitSession /\ [][NextSession]_vars

-----------------------------------------------------------------------------
\* Properties of main, under SpecSession

\* the keys that hold what main derives from the text
ArtifactsUnchanged ==
    UNCHANGED <<ss_file_stats, ss_mindmap_config, ss_markdown_content,
                ss_summaries, ss_current_summary_key, ss_flashcards,
                ss_quiz_questions>>

\* the step ends with the uploader holding a file whose text main had to
\* extract and extract_text_from_pdf gave nothing for
ExtractionFails ==
    /\ uploaded_file' # Absent
    /\ NeedsExtraction(uploaded_file'[1])
    /\ ~IsTruthy(extract_text_from_pdf(uploaded_file'[1]))

\* C22: when the extraction of the text of a newly uploaded file gives
\* None or nothing, the run returns before the tabs, so that no analysis or
\* generation can be started and none of their results changes while the
\* uploader holds that file, and extracted_text and current_file stay as
\* they were.
C22_FailedExtractionStops ==
    [][ExtractionFails =>
           /\ rendered' = "none"
           /\ extracted_text' = extracted_text
           /\ current_file' = current_file
           /\ ArtifactsUnchanged]_vars

\* c.pdf, a file without text, is uploaded after a.pdf and its mindmap:
\* the text, the name and the mindmap of a.pdf are still there
C22_Witness ==
    /\ uploaded_file # Absent
    /\ uploaded_file[1].name = "c.pdf"
    /\ rendered = "none"
    /\ current_file = Stored("a.pdf")
    /\ extracted_text = Stored(<<"a", " ", "b">>)
    /\ ss_markdown_content = Stored(<<"m">>)

\* an unreadable file is the first upload: nothing is stored
C22_WitnessUnreadable ==
    /\ uploaded_file # Absent
    /\ uploaded_file[1].name = "d.pdf"
    /\ rendered = "none"
    /\ current_file = Absent
    /\ extracted_text = Absent

\* whether an artifact of the kind is stored, and for the summary shown
\* (lines 1127-1131)
IsKept(kind) ==
    CASE kind = "file_stats" -> ss_file_stats # Absent
      [] kind = "markdown_content" -> ss_markdown_content # Absent
      [] kind = "mindmap_config" -> ss_mindmap_config # Absent
      [] kind = "summary" -> DisplayedSummary # {}
      [] kind = "flashcards" -> ss_flashcards # Absent
      [] kind = "quiz_questions" -> ss_quiz_questions # Absent

\* C23: no artifact derived from a previous file remains stored or
\* displayed once another file is uploaded and extracted: the statistics,
\* the mindmap markdown, the mindmap configuration, the summary, the
\* flashcards and the quiz questions kept are those of the current file.
C23_NoArtifactOfPreviousFile ==
    \A kind \in ArtifactKinds : IsKept(kind) => derived_from[kind] = current_file

\* C25: when markdown_content and mindmap_config are both stored, the
\* mindmap_config is the one stored by the Generate Mindmap run that stored
\* that markdown_content; no later failed Generate Mindmap and no Analyze
\* Document changes it.
C25_ConfigOfProducingRun ==
    (ss_markdown_content # Absent /\ ss_mindmap_config # Absent)
        => ss_mindmap_config = producing_config

-----------------------------------------------------------------------------
\* The flashcard viewer: the buttons of display_flashcards, lines 710-748,
\* with the uploads and the regenerations of main

\* the keys as display_flashcards has them when it draws the buttons
ShownFlashcards == display_flashcards(ss_flashcards[1], FlashcardState)

\* lines 713-718
PreviousHandler(cards, state) ==
    IF state.current_card[1] > 0
    THEN [state EXCEPT !.current_card = Stored(@[1] - 1),
                       !.show_answer = Stored(FALSE)]
    ELSE state

\* lines 720-723
FlipHandler(state) == [state EXCEPT !.show_answer = Stored(~@[1])]

\* lines 743-748
NextHandler(cards, state) ==
    IF state.current_card[1] < Len(cards) - 1
    THEN [state EXCEPT !.current_card = Stored(@[1] + 1),
                       !.show_answer = Stored(FALSE)]
    ELSE state

\* lines 725-732 for field "correct" and 734-741 for field "incorrect"
GotItHandler(field, cards, state) ==
    NextHandler(cards,
        [state EXCEPT !.stats = Stored([@[1] EXCEPT ![field] = @ + 1])])

\* a run with a button of the viewer clicked: the handler leaves the keys
\* as given, and the tabs are drawn with them, by the rest of the run or
\* by the run st.rerun() starts
ViewerRun(flashcard_state, quiz_state, choice) ==
    /\ rendered' = "all"
    /\ FlashcardsTab(ss_flashcards, flashcard_state)
    /\ QuizTabWith(ss_quiz_questions, quiz_state, choice)
    /\ UNCHANGED <<uploaded_file, current_file, sessionVars, storeVars,
                   derived_from, producing_config>>
    /\ SessionFrame

\* the buttons of lines 713, 720 and 743 are drawn whenever a card is
FlashcardsShown == rendered = "all" /\ displayed_card # Absent

PreviousCard ==
    /\ FlashcardsShown
    /\ ViewerRun(PreviousHandler(ss_flashcards[1], ShownFlashcards),
                 QuizState, Absent)

FlipCard ==
    /\ FlashcardsShown
    /\ ViewerRun(FlipHandler(ShownFlashcards), QuizState, Absent)

NextCard ==
    /\ FlashcardsShown
    /\ ViewerRun(NextHandler(ss_flashcards[1], ShownFlashcards),
                 QuizState, Absent)

\* the buttons of lines 726 and 735 are drawn when the answer is shown
GotItRight ==
    /\ FlashcardsShown
    /\ flashcard_show_answer = Stored(TRUE)
    /\ flashcard_stats[1].correct < MaxAnswered
    /\ ViewerRun(GotItHandler("correct", ss_flashcards[1], ShownFlashcards),
                 QuizState, Absent)

GotItWrong ==
    /\ FlashcardsShown
    /\ flashcard_show_answer = Stored(TRUE)
    /\ flashcard_stats[1].incorrect < MaxAnswered
    /\ ViewerRun(GotItHandler("incorrect", ss_flashcards[1], ShownFlashcards),
                 QuizState, Absent)

NextFlashcards ==
    \/ \E file \in {Absent} \cup {Stored(f) : f \in Files} : Upload(file)
    \/ \E outcome \in FlashcardOutcomes : GenerateFlashcards(outcome)
    \/ PreviousCard
    \/ FlipCard
    \/ GotItRight
    \/ GotItWrong
    \/ NextCard

SpecFlashcards == InitSession /\ [][NextFlashcards]_vars

\* C26: in the flashcard viewer, after any sequence of Previous, Next,
\* Flip, Got it right and Got it wrong and of regenerations with another
\* number of cards, the index used to look the card up at line 680 is
\* within 0..len(cards)-1, and every step that changes the index leaves
\* show_answer false.
C26_IndexInRangeAndAnswerHidden ==
    /\ [](displayed_card # Absent =>
             /\ ss_flashcards # Absent
             /\ displayed_card = flashcard_current_card
             /\ displayed_card[1] \in 0..(Len(ss_flashcards[1]) - 1))
    /\ [][flashcard_current_card' # flashcard_current_card
             => flashcard_show_answer' = Stored(FALSE)]_vars

\* the last of two cards is reached by Got it right, its answer hidden
C26_Witness ==
    /\ ss_flashcards # Absent
    /\ Len(ss_flashcards[1]) = 2
    /\ displayed_card = Stored(1)
    /\ flashcard_show_answer = Stored(FALSE)
    /\ flashcard_stats = Stored([correct |-> 1, incorrect |-> 0])

-----------------------------------------------------------------------------
\* The quiz: the radio and the buttons of display_quiz, lines 810-844 and
\* 905-911, with the uploads and the regenerations of main

\* the keys as display_quiz has them when it draws the buttons
ShownQuiz ==
    QuizMode(ss_quiz_questions[1],
             display_quiz(ss_quiz_questions[1], QuizState), Absent)

\* the quiz was drawn by the latest run, in quiz mode or in results mode
QuizShown == rendered = "all" /\ ss_quiz_questions # Absent

InQuizMode == QuizShown /\ quiz_show_results = Stored(FALSE)

InResultsMode == QuizShown /\ quiz_show_results = Stored(TRUE)

\* line 837 with the button enabled once any question is answered
SubmitDisabledUntilFirstAnswer(answered_count, questions) == answered_count < 1

\* line 837, disabled=answered_count < len(questions)
SubmitDisabled(answered_count, questions) == answered_count < Len(questions)

\* line 833
AnsweredCount(user_answers) == Cardinality(DOMAIN user_answers)

\* the user picks an option of the radio of line 810; the run records it
\* at line 818 and draws the rest
SelectAnswer ==
    /\ InQuizMode
    /\ \E option \in
           {ss_quiz_questions[1][quiz_current_question[1] + 1].options[k] :
            k \in 1..Len(ss_quiz_questions[1][quiz_current_question[1] + 1].options)} :
           ViewerRun(FlashcardState, QuizState, Stored(option))

\* lines 824-827; the button is drawn after the first question only
PreviousQuestion ==
    /\ InQuizMode
    /\ quiz_current_question[1] > 0
    /\ ViewerRun(FlashcardState,
                 [ShownQuiz EXCEPT !.current_question = Stored(@[1] - 1)],
                 Absent)

\* lines 829-832; the button is drawn before the last question only
NextQuestion ==
    /\ InQuizMode
    /\ quiz_current_question[1] < Len(ss_quiz_questions[1]) - 1
    /\ ViewerRun(FlashcardState,
                 [ShownQuiz EXCEPT !.current_question = Stored(@[1] + 1)],
                 Absent)

\* lines 833-842
SubmitQuiz ==
    /\ InQuizMode
    /\ ~SubmitDisabled(AnsweredCount(ShownQuiz.user_answers[1]),
                       ss_quiz_questions[1])
    /\ ViewerRun(FlashcardState,
                 [ShownQuiz EXCEPT !.is_submitted = Stored(TRUE),
                                   !.show_results = Stored(TRUE)],
                 Absent)

\* lines 904-911
RetakeQuiz ==
    /\ InResultsMode
    /\ ViewerRun(FlashcardState, DeletedQuizState, Absent)

NextQuiz ==
    \/ \E file \in {Absent} \cup {Stored(f) : f \in Files} : Upload(file)
    \/ \E outcome \in QuizOutcomes : GenerateQuiz(outcome)
    \/ SelectAnswer
    \/ PreviousQuestion
    \/ NextQuestion
    \/ SubmitQuiz
    \/ RetakeQuiz

SpecQuiz == InitSession /\ [][NextQuiz]_vars

\* an answer is recorded for every question of the quiz
EveryQuestionAnswered ==
    \A i \in 0..(Len(ss_quiz_questions[1]) - 1) :
        AnswerKey(i) \in DOMAIN quiz_user_answers[1]

\* the keys as display_quiz sets them for a quiz never drawn before
InitialQuizState ==
    [current_question |-> Stored(0), user_answers |-> Stored(NoAnswers),
     is_submitted |-> Stored(FALSE), show_results |-> Stored(FALSE)]

\* C27: in the quiz, quiz_show_results becomes true by Submit only, Submit
\* is enabled only when an answer is recorded for every question, and so
\* whenever the results of a quiz are shown quiz_user_answers has an answer
\* for each index 0..len(questions)-1; Retake puts the quiz back to
\* question 0, no answer, not submitted.
C27_ResultsOnlyWhenAllAnswered ==
    /\ [](InResultsMode => EveryQuestionAnswered)
    /\ [][(quiz_show_results' = Stored(TRUE)
             /\ quiz_show_results # Stored(TRUE))
          => (InQuizMode /\ EveryQuestionAnswered
                /\ quiz_is_submitted' = Stored(TRUE)
                /\ quiz_user_answers' = quiz_user_answers)]_vars
    /\ [][(InResultsMode /\ quiz_show_results' # Stored(TRUE)
             /\ ss_quiz_questions' = ss_quiz_questions)
          => QuizState' = InitialQuizState]_vars

\* the results of a quiz of two questions, answered B and D
C27_Witness ==
    /\ InResultsMode
    /\ Len(ss_quiz_questions[1]) = 2
    /\ quiz_user_answers[1][AnswerKey(0)] = <<"B">>
    /\ quiz_user_answers[1][AnswerKey(1)] = <<"D">>
    /\ quiz_is_submitted = Stored(TRUE)

\* the quiz after Retake, the results of the uploaded file's quiz gone
C27_WitnessQuizMode ==
    /\ InQuizMode
    /\ QuizState = InitialQuizState

=============================================================================
